---- MODULE Spec2Model ----
(***************************************************************************)
(* Question-answer rendezvous engine of ask-human-go (file mode).          *)
(*                                                                         *)
(* One ask call per element of Calls runs askQuestion/askQuestionFile;     *)
(* the watch loop, the registry sweep loop, the human editor and the       *)
(* clock run beside them.  Text is a sequence of tokens: one token per     *)
(* lexical element the answer regex of FindAnswer distinguishes.           *)
(***************************************************************************)
EXTENDS Integers, Sequences, FiniteSets, TLC

(***************************************************************************)
(* Bounds of the model.                                                    *)
(***************************************************************************)
\* number of ask calls (goroutines running askQuestion)
NumCalls == 2
\* distinct answers the human types into the artifact
MaxEdits == 1
\* filesystem events the watcher's event channel buffers
MaxEvents == 1
\* config.Timeout, in clock units
Timeout == 1
\* config.MaxPendingQuestions
MaxPendingQuestions == 1
\* config.MaxQuestionLength, in tokens
MaxQuestionLength == 2
\* config.MaxContextLength, in tokens
MaxContextLength == 1
\* config.MaxFileSize, in tokens
MaxFileSize == 80

Calls == 1..NumCalls

(***************************************************************************)
(* Text.                                                                   *)
(*   "HASH"  the header prefix "### "       "RULE"  the rule "---"         *)
(*   "ANS"   the marker "**Answer:**"       "NL"    a newline              *)
(*   "SP"    a blank                        "CR"    a carriage return      *)
(*   any other token is a word                                             *)
(***************************************************************************)
QuestionIDs == <<"Q1", "Q2", "Q3", "Q4">>

IsSpace(t) == t \in {"SP", "NL", "CR"}

\* strings.ToLower on the words whose case matters to the parser
ToLower(t) ==
    CASE t \in {"PENDING", "Pending", "pending"} -> "pending"
      [] OTHER -> t

\* strings.TrimSpace
RECURSIVE TrimLeft(_)
TrimLeft(s) ==
    IF s # <<>> /\ IsSpace(Head(s)) THEN TrimLeft(Tail(s)) ELSE s

RECURSIVE TrimRight(_)
TrimRight(s) ==
    IF s # <<>> /\ IsSpace(s[Len(s)]) THEN TrimRight(SubSeq(s, 1, Len(s) - 1)) ELSE s

TrimSpace(s) == TrimRight(TrimLeft(s))

\* NormalizeLineEndings: "\r\n" -> "\n", then "\r" -> "\n"
RECURSIVE NormalizeLineEndings(_)
NormalizeLineEndings(s) ==
    IF s = <<>> THEN <<>>
    ELSE IF Head(s) = "CR"
         THEN IF Len(s) > 1 /\ s[2] = "NL"
              THEN <<"NL">> \o NormalizeLineEndings(Tail(Tail(s)))
              ELSE <<"NL">> \o NormalizeLineEndings(Tail(s))
         ELSE <<Head(s)>> \o NormalizeLineEndings(Tail(s))

\* the artifact initFile leaves behind: a heading, instructions, a rule
Preamble == <<"TXT", "NL", "NL", "RULE", "NL", "NL">>

\* the block AppendQuestion formats, with `answer` in the answer field
FormatBlock(b) ==
    <<"NL", "RULE", "NL", "NL", "HASH", b.id, "NL", "NL",
      "TSL", "SP", "TS", "SP", "SP", "NL",
      "QL", "SP">> \o b.question \o <<"SP", "SP", "NL",
      "CL", "SP">> \o b.context \o <<"SP", "SP", "NL",
      "ANS", "SP">> \o b.answer \o <<"NL", "NL">>

RECURSIVE RenderBlocks(_)
RenderBlocks(blocks) ==
    IF blocks = <<>> THEN <<>>
    ELSE FormatBlock(Head(blocks)) \o RenderBlocks(Tail(blocks))

\* the text of the artifact file
FileText(blocks) == Preamble \o RenderBlocks(blocks)

(***************************************************************************)
(* FindAnswer: the regular expression                                      *)
(*   (?is)### ID\s*\n.*?\*\*Answer:\*\*\s*(.*?)(?:\n{2,}---|### |$)       *)
(* under leftmost-first matching.                                          *)
(***************************************************************************)
\* "\s*\n" matches at position j: blanks, then a newline
RECURSIVE BlanksThenNewline(_, _)
BlanksThenNewline(s, j) ==
    IF j > Len(s) THEN FALSE
    ELSE IF s[j] = "NL" THEN TRUE
    ELSE IF IsSpace(s[j]) THEN BlanksThenNewline(s, j + 1)
    ELSE FALSE

\* "### ID\s*\n" matches at position i
HeaderAt(s, i, id) ==
    /\ i + 2 <= Len(s)
    /\ s[i] = "HASH"
    /\ s[i + 1] = id
    /\ BlanksThenNewline(s, i + 2)

\* the leftmost position at or after i where the header matches, 0 if none
RECURSIVE FirstHeader(_, _, _)
FirstHeader(s, i, id) ==
    IF i > Len(s) THEN 0
    ELSE IF HeaderAt(s, i, id) THEN i
    ELSE FirstHeader(s, i + 1, id)

\* ".*?\*\*Answer:\*\*": the first answer marker at or after i, 0 if none
RECURSIVE FirstMarker(_, _)
FirstMarker(s, i) ==
    IF i > Len(s) THEN 0
    ELSE IF s[i] = "ANS" THEN i
    ELSE FirstMarker(s, i + 1)

\* "\s*", greedy: the first position at or after i that holds no blank
RECURSIVE SkipBlanks(_, _)
SkipBlanks(s, i) ==
    IF i <= Len(s) /\ IsSpace(s[i]) THEN SkipBlanks(s, i + 1) ELSE i

\* "\n{2,}---" matches at position k, n newlines having been read
RECURSIVE NewlinesThenRule(_, _, _)
NewlinesThenRule(s, k, n) ==
    IF k > Len(s) THEN FALSE
    ELSE IF s[k] = "NL" THEN NewlinesThenRule(s, k + 1, n + 1)
    ELSE s[k] = "RULE" /\ n >= 2

\* one of the three delimiters "\n{2,}---", "### ", "$" matches at position e
AnswerEndAt(s, e) ==
    \/ e = Len(s) + 1
    \/ s[e] = "HASH"
    \/ NewlinesThenRule(s, e, 0)

\* a capture that ends at the first newline
RECURSIVE FirstEnd_firstLine(_, _)
FirstEnd_firstLine(s, i) ==
    IF AnswerEndAt(s, i) \/ s[i] = "NL" THEN i ELSE FirstEnd_firstLine(s, i + 1)

\* "(.*?)", lazy: the first position at or after i where a delimiter matches
RECURSIVE FirstEnd(_, _)
FirstEnd(s, i) ==
    IF AnswerEndAt(s, i) THEN i ELSE FirstEnd(s, i + 1)

NotFound == [found |-> FALSE, answer |-> <<>>]

\* a sentinel test that knows one spelling only
IsPending_caseSensitive(answer) == answer = <<"PENDING">>

\* strings.ToLower(answer) == "pending"
IsPending(answer) == Len(answer) = 1 /\ ToLower(answer[1]) = "pending"

\* F applied to the value of v, which is computed once
With(v, F(_)) == CHOOSE r \in {F(x) : x \in {v}} : TRUE

\* FindAnswer: h is where the header matches, a where the marker does,
\* b..e-1 is what the group captures
FindAnswer(content, id) ==
    With(content, LAMBDA s :
    With(FirstHeader(s, 1, id), LAMBDA h :
    With(IF h = 0 THEN 0 ELSE FirstMarker(s, h + 2), LAMBDA a :
        IF a = 0 THEN NotFound
        ELSE
        With(SkipBlanks(s, a + 1), LAMBDA b :
        With(FirstEnd(s, b), LAMBDA e :
        With(TrimSpace(SubSeq(s, b, e - 1)), LAMBDA answer :
            IF IsPending(answer)
            THEN NotFound
            ELSE [found |-> TRUE, answer |-> answer]))))))

(***************************************************************************)
(* Inputs of ask, the human's answers.                                     *)
(***************************************************************************)
Rep(t, n) == [i \in 1..n |-> t]

\* a question of exactly the permitted length, one token too long, and one
\* of permitted length that carries the answer marker
NormalQ == Rep("w", MaxQuestionLength)
LongQ == Rep("w", MaxQuestionLength + 1)
MarkerQ == <<"ANS">> \o Rep("w", MaxQuestionLength - 1)
NormalC == Rep("c", MaxContextLength)
LongC == Rep("c", MaxContextLength + 1)

Inputs ==
    { <<NormalQ, NormalC>>, <<MarkerQ, NormalC>>,
      <<LongQ, NormalC>>, <<NormalQ, LongC>>, <<LongQ, LongC>> }

\* what the human types over PENDING
Answers == { <<"SP", "blue", "NL">> }

\* the human deletes PENDING and leaves the answer field blank
BlankAnswers == { <<>> }

(***************************************************************************)
(* State.                                                                  *)
(***************************************************************************)
VARIABLES
    pc,                 \* position of each ask call
    questionID,         \* askQuestion: questionID
    question,           \* askQuestion: question, after ValidateInput
    context,            \* askQuestion: context, after ValidateInput
    existingContent,    \* AppendQuestion: existingContent, between read and write
    result,             \* what the call returns (set when decided, final at pc = "done")
    sinceStart,         \* askQuestionFile: time.Since(startTime)
    cleanedUp,          \* history: entries the call's own cleanupTimeouts deleted
    missedAnswer,       \* history: the call waits, and a read of its failed with the answer there
    pendingQuestions,   \* AskHumanServer.pendingQuestions: id -> time since its entry was made
    answeredQuestions,  \* AskHumanServer.answeredQuestions
    totalQuestions,     \* AskHumanServer.totalQuestions
    totalAnswered,      \* AskHumanServer.totalAnswered
    callbacks,          \* FileWatcher.callbacks: id -> channel (named by its maker)
    chan,               \* the channels RegisterCallback makes: buffer and closed flag
    panicked,           \* a close of a closed channel or a send on one happened
    artifact,           \* the blocks of the ask file, after the preamble
    lockFile,           \* the file AskFile + ".lock" exists
    tempFile,           \* the file AskFile + ".tmp" exists
    events,             \* fsnotify events not yet received by watchLoop
    shutdown,           \* shutdownCtx is done
    nextID,             \* number of identifiers uuid.New has produced, plus one
    humanWrote,         \* history: the <<id, text>> the human has typed into answer fields
    watchLoop,          \* FileWatcher.watchLoop: "running" or "exited"
    cleanupLoop,        \* AskHumanServer.cleanupLoop: "running" or "exited"
    watcherOpen,        \* the fsnotify handle fw.watcher has not been closed
    mutex,              \* AskHumanServer.mutex: the call that holds it between steps, or 0
    fwMutex,            \* FileWatcher.mutex: the call that holds it between steps, or 0
    zenityMode,         \* Config.ZenityMode
    parserBlocks,       \* the blocks of the text FindAnswer is applied to
    wantedID,           \* the identifier FindAnswer is asked for
    parsed              \* what FindAnswer returned

callVars == <<pc, questionID, question, context, existingContent, result, sinceStart,
              cleanedUp, missedAnswer>>
registryVars == <<pendingQuestions, answeredQuestions, totalQuestions, totalAnswered>>
notifierVars == <<callbacks, chan, panicked>>
fileVars == <<artifact, lockFile, tempFile, events>>
parserVars == <<parserBlocks, wantedID, parsed>>
loopVars == <<watchLoop, cleanupLoop, watcherOpen>>
mutexVars == <<mutex, fwMutex>>
envVars == <<shutdown, nextID, humanWrote, parserVars, loopVars, mutexVars, zenityMode>>
vars == <<callVars, registryVars, notifierVars, fileVars, envVars>>

NoResult == [kind |-> "none", value |-> <<>>]

\* FindAnswer has not been applied
NotParsed == [found |-> FALSE, answer |-> <<"none">>]
Err(kind, detail) == [kind |-> kind, value |-> <<detail>>]
Answer(text) == [kind |-> "answer", value |-> text]

EmptyMap == [i \in {} |-> 0]

\* the server after NewAskHumanServer with Config.ZenityMode = z: the file
\* watcher and the ask file are made in file mode only, and initFile leaves
\* an ask file that exists as it is; file is the blocks it holds
ServerInit(z, file) ==
    /\ pc = [c \in Calls |-> "idle"]
    /\ questionID = [c \in Calls |-> "none"]
    /\ question = [c \in Calls |-> <<>>]
    /\ context = [c \in Calls |-> <<>>]
    /\ existingContent = [c \in Calls |-> <<>>]
    /\ result = [c \in Calls |-> NoResult]
    /\ sinceStart = [c \in Calls |-> 0]
    /\ cleanedUp = [c \in Calls |-> 0]
    /\ missedAnswer = [c \in Calls |-> FALSE]
    /\ pendingQuestions = EmptyMap
    /\ answeredQuestions = {}
    /\ totalQuestions = 0
    /\ totalAnswered = 0
    /\ callbacks = EmptyMap
    /\ chan = [c \in Calls |-> [buf |-> 0, closed |-> FALSE]]
    /\ panicked = FALSE
    /\ artifact = file
    /\ lockFile = FALSE
    /\ tempFile = FALSE
    /\ events = <<>>
    /\ shutdown = FALSE
    /\ nextID = 1
    /\ humanWrote = {}
    /\ watchLoop = IF z THEN "absent" ELSE "running"
    /\ cleanupLoop = "running"
    /\ watcherOpen = ~z
    /\ mutex = 0
    /\ fwMutex = 0
    /\ zenityMode = z

\* the engine in file mode
EngineInit == ServerInit(FALSE, <<>>)

Init ==
    /\ EngineInit
    /\ parserBlocks = <<>>
    /\ wantedID = "none"
    /\ parsed = NotParsed

(***************************************************************************)
(* Time.  Every time value the program keeps is compared with time.Now()   *)
(* and Timeout only, so the model keeps the elapsed time, which stops      *)
(* counting one unit past Timeout.                                         *)
(***************************************************************************)
MaxElapsed == Timeout + 1

Older(t) == IF t < MaxElapsed THEN t + 1 ELSE t

(***************************************************************************)
(* Pending registry: AskHumanServer.pendingQuestions under its mutex.       *)
(***************************************************************************)
\* s.pendingQuestions[questionID] = time.Now()
trackQuestion(p, id) ==
    [i \in DOMAIN p \cup {id} |-> IF i = id THEN 0 ELSE p[i]]

\* a removePendingQuestion that forgets the delete
removePendingQuestion_keeps(p, id) == p

\* removePendingQuestion: delete(s.pendingQuestions, questionID)
removePendingQuestion(p, id) ==
    [i \in DOMAIN p \ {id} |-> p[i]]

\* a sweep that deletes an entry as soon as its age reaches the timeout
expired_atTimeout(elapsed) == elapsed >= Timeout

\* cleanupTimeouts, line 29: now.Sub(startTime) > s.config.Timeout
expired(elapsed) == elapsed > Timeout

\* a sweep that deletes every entry
cleanupTimeouts_all(p) == EmptyMap

\* cleanupTimeouts: delete every expired entry
cleanupTimeouts(p) ==
    [i \in {j \in DOMAIN p : ~expired(p[j])} |-> p[i]]

\* len(s.pendingQuestions)
count(p) == Cardinality(DOMAIN p)

\* a limit test that lets one question too many in
tooManyPending_above(pendingCount) == pendingCount > MaxPendingQuestions

\* askQuestion, line 167: pendingCount >= s.config.MaxPendingQuestions
tooManyPending(pendingCount) == pendingCount >= MaxPendingQuestions

(***************************************************************************)
(* Change notifier: FileWatcher.  A notifier state is a record of          *)
(* callbacks, chan and panicked.                                           *)
(***************************************************************************)
Notifier == [callbacks |-> callbacks, chan |-> chan, panicked |-> panicked]

\* a RegisterCallback that makes the channel and does not enter it in the map
RegisterCallback_noEntry(n, id, ch) ==
    [n EXCEPT !.chan = [n.chan EXCEPT ![ch] = [buf |-> 0, closed |-> FALSE]]]

\* RegisterCallback: ch := make(chan struct{}, 1); fw.callbacks[questionID] = ch
RegisterCallback(n, id, ch) ==
    [n EXCEPT
        !.callbacks = [i \in DOMAIN n.callbacks \cup {id} |->
                          IF i = id THEN ch ELSE n.callbacks[i]],
        !.chan = [n.chan EXCEPT ![ch] = [buf |-> 0, closed |-> FALSE]]]

\* an UnregisterCallback that closes the channel and keeps the map entry
UnregisterCallback_keepsEntry(n, id) ==
    IF id \in DOMAIN n.callbacks
    THEN LET ch == n.callbacks[id]
         IN  [callbacks |-> n.callbacks,
              chan |-> [n.chan EXCEPT ![ch].closed = TRUE],
              panicked |-> n.panicked \/ n.chan[ch].closed]
    ELSE n

\* UnregisterCallback: if present, close(ch) and delete(fw.callbacks, questionID)
UnregisterCallback(n, id) ==
    IF id \in DOMAIN n.callbacks
    THEN LET ch == n.callbacks[id]
         IN  [callbacks |-> [i \in DOMAIN n.callbacks \ {id} |-> n.callbacks[i]],
              chan |-> [n.chan EXCEPT ![ch].closed = TRUE],
              panicked |-> n.panicked \/ n.chan[ch].closed]
    ELSE n

\* the channels the subscription table holds
Subscribed(n) == {n.callbacks[i] : i \in DOMAIN n.callbacks}

\* RegisterCallback, line 57: make(chan struct{}, 1)
ChanCap == 1

\* a NotifyAll whose send does not look at the room in the buffer
NotifyAll_overfills(n) ==
    [n EXCEPT
        !.chan = [ch \in DOMAIN n.chan |->
                    IF ch \in Subscribed(n) /\ ~n.chan[ch].closed
                    THEN [n.chan[ch] EXCEPT !.buf = @ + 1]
                    ELSE n.chan[ch]],
        !.panicked = n.panicked \/ \E ch \in Subscribed(n) : n.chan[ch].closed]

\* NotifyAll: a non-blocking send on every subscribed channel; the default
\* case is taken when the buffer is full
NotifyAll(n) ==
    [n EXCEPT
        !.chan = [ch \in DOMAIN n.chan |->
                    IF ch \in Subscribed(n) /\ ~n.chan[ch].closed
                          /\ n.chan[ch].buf < ChanCap
                    THEN [n.chan[ch] EXCEPT !.buf = @ + 1]
                    ELSE n.chan[ch]],
        !.panicked = n.panicked \/ \E ch \in Subscribed(n) : n.chan[ch].closed]

SetNotifier(n) ==
    /\ callbacks' = n.callbacks
    /\ chan' = n.chan
    /\ panicked' = n.panicked

(***************************************************************************)
(* Artifact store: ValidateInput, AppendQuestion, SafeWriteText.           *)
(***************************************************************************)
\* a length test that turns away a text of exactly maxLength
ValidateInput_atLimit(text, maxLength) ==
    IF Len(text) >= maxLength
    THEN [ok |-> FALSE, text |-> <<>>]
    ELSE [ok |-> TRUE, text |-> SelectSeq(text, LAMBDA t : t \notin {"CR", "CTL"})]

\* ValidateInput: the length test, then control characters are dropped
ValidateInput(text, maxLength) ==
    IF Len(text) > maxLength
    THEN [ok |-> FALSE, text |-> <<>>]
    ELSE [ok |-> TRUE, text |-> SelectSeq(text, LAMBDA t : t \notin {"CR", "CTL"})]

NewBlock(id, q, c) ==
    [id |-> id, question |-> q, context |-> c, answer |-> <<"PENDING">>]

NormalizeBlock(b) ==
    [id |-> b.id,
     question |-> NormalizeLineEndings(b.question),
     context |-> NormalizeLineEndings(b.context),
     answer |-> NormalizeLineEndings(b.answer)]

\* AppendQuestion: newContent := existingContent + the formatted block,
\* as SafeWriteText leaves it in the file
AppendedContent(existing, id, q, c) ==
    [i \in 1..(Len(existing) + 1) |->
        NormalizeBlock(IF i <= Len(existing) THEN existing[i] ELSE NewBlock(id, q, c))]

\* SafeWriteText fails.  The temporary file after it: as before when MkdirAll
\* fails or os.WriteFile cannot open it (line 108, line 114); there, with part
\* of the content, when os.WriteFile fails after opening it (line 114, no
\* os.Remove); gone when os.Rename fails (line 119: os.Remove)
SafeWriteTextFailure(temp) == {temp, TRUE, FALSE}

\* what fsnotify reports: the path and the set of bits of event.Op.  An event
\* may be dropped, and none is produced once the handle is closed
Event(name, op) == [name |-> name, op |-> op]
Emitted(e) ==
    {events} \cup
    (IF watcherOpen /\ Len(events) < MaxEvents THEN {Append(events, e)} ELSE {})

(***************************************************************************)
(* The two mutexes.  A step that takes one waits until it is free; Lock    *)
(* and the deferred Unlock of one function are one step, so what the       *)
(* variable keeps is the holder a step leaves behind.                      *)
(***************************************************************************)
\* s.mutex.Lock() or s.mutex.RLock() returns
mutexFree == mutex = 0

\* fw.mutex.Lock() or fw.mutex.RLock() returns
fwMutexFree == fwMutex = 0

(***************************************************************************)
(* askQuestion and askQuestionFile.  An action is one lock                 *)
(* region or file operation, together with the statements around it that   *)
(* touch nothing shared.                                                   *)
(***************************************************************************)
Goto(c, l) == pc' = [pc EXCEPT ![c] = l]

\* the call has decided what it returns; the deferred UnregisterCallback is left
Decide(c, r) ==
    /\ result' = [result EXCEPT ![c] = r]
    /\ Goto(c, "unreg")

\* a return before RegisterCallback
Return(c, r) ==
    /\ result' = [result EXCEPT ![c] = r]
    /\ Goto(c, "done")

\* an identifier source that hands out the same identifier again
newQuestionID_repeats(n) == QuestionIDs[1]

\* askQuestion, line 173: "Q" + uuid.New().String()[:8]; uuid.New is taken to
\* return a value it has not returned before
newQuestionID(n) == QuestionIDs[n]

\* askQuestion, lines 150-174: validation, the resource limit, the identifier.
\* A call that is turned away keeps its arguments in question and context.
askQuestion(c, q, ctx) ==
    /\ pc[c] = "idle"
    /\ \A d \in Calls : d < c => pc[d] # "idle"
    /\ LET vq == ValidateInput(q, MaxQuestionLength)
           vc == ValidateInput(ctx, MaxContextLength)
       IN  IF ~vq.ok
           THEN /\ Return(c, Err("ErrInputValidation", "Question"))
                /\ question' = [question EXCEPT ![c] = q]
                /\ context' = [context EXCEPT ![c] = ctx]
                /\ UNCHANGED <<questionID, nextID>>
           ELSE IF ~vc.ok
           THEN /\ Return(c, Err("ErrInputValidation", "Context"))
                /\ question' = [question EXCEPT ![c] = q]
                /\ context' = [context EXCEPT ![c] = ctx]
                /\ UNCHANGED <<questionID, nextID>>
           ELSE IF ~mutexFree
           THEN FALSE
           ELSE IF tooManyPending(count(pendingQuestions))
           THEN /\ Return(c, Err("ErrTooManyQuestions", "pending"))
                /\ question' = [question EXCEPT ![c] = vq.text]
                /\ context' = [context EXCEPT ![c] = vc.text]
                /\ UNCHANGED <<questionID, nextID>>
           ELSE /\ questionID' = [questionID EXCEPT ![c] = newQuestionID(nextID)]
                /\ nextID' = nextID + 1
                /\ question' = [question EXCEPT ![c] = vq.text]
                /\ context' = [context EXCEPT ![c] = vc.text]
                /\ Goto(c, "cleanup")
                /\ UNCHANGED result
    /\ UNCHANGED <<existingContent, sinceStart, cleanedUp, missedAnswer, registryVars, notifierVars,
                   fileVars, shutdown, humanWrote, parserVars, loopVars, mutexVars,
                   zenityMode>>

\* askQuestion, lines 177-184: s.cleanupTimeouts(), then the mode
askCleanup(c) ==
    /\ pc[c] = "cleanup"
    /\ mutexFree
    /\ pendingQuestions' = cleanupTimeouts(pendingQuestions)
    /\ cleanedUp' = [cleanedUp EXCEPT ![c] = count(pendingQuestions) - count(pendingQuestions')]
    /\ Goto(c, IF zenityMode THEN "ztrack" ELSE "register")
    /\ UNCHANGED <<questionID, question, context, existingContent, result,
                   sinceStart, missedAnswer, answeredQuestions, totalQuestions, totalAnswered,
                   notifierVars, fileVars, envVars>>

\* askQuestionFile, line 214: info.Size() > s.config.MaxFileSize
fileTooLarge(size) == size > MaxFileSize

\* an ask call that subscribes before it looks at the size of the file
register_subscribesFirst(c) ==
    /\ pc[c] = "register"
    /\ fwMutexFree
    /\ SetNotifier(RegisterCallback(Notifier, questionID[c], c))
    /\ IF fileTooLarge(Len(FileText(artifact)))
       THEN /\ Return(c, Err("ErrFileTooLarge", "size"))
            /\ question' = [question EXCEPT ![c] = <<>>]
            /\ context' = [context EXCEPT ![c] = <<>>]
       ELSE /\ Goto(c, "lock")
            /\ UNCHANGED <<result, question, context>>
    /\ UNCHANGED <<questionID, existingContent, sinceStart, cleanedUp, missedAnswer, registryVars,
                   fileVars, envVars>>

\* askQuestionFile, lines 212-222: the file size test, then RegisterCallback
register(c) ==
    /\ pc[c] = "register"
    /\ IF fileTooLarge(Len(FileText(artifact)))
       THEN /\ Return(c, Err("ErrFileTooLarge", "size"))
            /\ question' = [question EXCEPT ![c] = <<>>]
            /\ context' = [context EXCEPT ![c] = <<>>]
            /\ UNCHANGED notifierVars
       ELSE /\ fwMutexFree
            /\ SetNotifier(RegisterCallback(Notifier, questionID[c], c))
            /\ Goto(c, "lock")
            /\ UNCHANGED <<result, question, context>>
    /\ UNCHANGED <<questionID, existingContent, sinceStart, cleanedUp, missedAnswer, registryVars,
                   fileVars, envVars>>

\* a failed Lock whose return skips the deferred UnregisterCallback
lockFail_leaks(c) ==
    /\ pc[c] = "lock"
    /\ lockFile
    /\ Return(c, Err("ErrFileAccess", "lock"))
    /\ question' = [question EXCEPT ![c] = <<>>]
    /\ context' = [context EXCEPT ![c] = <<>>]
    /\ UNCHANGED <<questionID, existingContent, sinceStart, cleanedUp, missedAnswer, registryVars,
                   notifierVars, fileVars, envVars>>

\* FileLock.Lock fails: the lock file exists
lockFail(c) ==
    /\ pc[c] = "lock"
    /\ lockFile
    /\ Decide(c, Err("ErrFileAccess", "lock"))
    /\ question' = [question EXCEPT ![c] = <<>>]
    /\ context' = [context EXCEPT ![c] = <<>>]
    /\ UNCHANGED <<questionID, existingContent, sinceStart, cleanedUp, missedAnswer, registryVars,
                   notifierVars, fileVars, envVars>>

\* a Lock that opens the lock file without O_EXCL
lockRead_noExcl(c) ==
    /\ pc[c] = "lock"
    /\ lockFile' = TRUE
    /\ existingContent' = [existingContent EXCEPT ![c] = artifact]
    /\ Goto(c, "write")
    /\ UNCHANGED <<questionID, question, context, result, sinceStart, cleanedUp, missedAnswer,
                   registryVars, notifierVars, artifact, tempFile, events, envVars>>

\* FileLock.Lock creates the lock file; AppendQuestion, line 184: SafeReadText
lockRead(c) ==
    /\ pc[c] = "lock"
    /\ ~lockFile
    /\ lockFile' = TRUE
    /\ existingContent' = [existingContent EXCEPT ![c] = artifact]
    /\ Goto(c, "write")
    /\ UNCHANGED <<questionID, question, context, result, sinceStart, cleanedUp, missedAnswer,
                   registryVars, notifierVars, artifact, tempFile, events, envVars>>

\* FileLock.Lock; AppendQuestion, lines 185-187: SafeReadText fails; Unlock
lockReadFail(c) ==
    /\ pc[c] = "lock"
    /\ ~lockFile
    /\ Decide(c, Err("ErrFileAccess", "read"))
    /\ question' = [question EXCEPT ![c] = <<>>]
    /\ context' = [context EXCEPT ![c] = <<>>]
    /\ UNCHANGED <<questionID, existingContent, sinceStart, cleanedUp, missedAnswer, registryVars,
                   notifierVars, fileVars, envVars>>

\* AppendQuestion, lines 190-198: SafeWriteText renames the new content over
\* the file; WithFileLock, line 66: Unlock
appendWrite(c) ==
    /\ pc[c] = "write"
    /\ artifact' = AppendedContent(existingContent[c], questionID[c], question[c], context[c])
    /\ events' \in Emitted(Event("ask", {"Create"}))
    /\ tempFile' = FALSE
    /\ lockFile' = FALSE
    /\ existingContent' = [existingContent EXCEPT ![c] = <<>>]
    /\ question' = [question EXCEPT ![c] = <<>>]
    /\ context' = [context EXCEPT ![c] = <<>>]
    /\ Goto(c, "check")
    /\ UNCHANGED <<questionID, result, sinceStart, cleanedUp, missedAnswer, registryVars, notifierVars, envVars>>

\* a failed append that returns without the deferred UnregisterCallback
appendWriteFail_leaks(c) ==
    /\ pc[c] = "write"
    /\ lockFile' = FALSE
    /\ existingContent' = [existingContent EXCEPT ![c] = <<>>]
    /\ question' = [question EXCEPT ![c] = <<>>]
    /\ context' = [context EXCEPT ![c] = <<>>]
    /\ Return(c, Err("ErrFileAccess", "write"))
    /\ tempFile' \in SafeWriteTextFailure(tempFile)
    /\ UNCHANGED <<questionID, sinceStart, cleanedUp, missedAnswer, registryVars, notifierVars,
                   artifact, events, envVars>>

\* a failed append that returns without Unlock
appendWriteFail_keepsLock(c) ==
    /\ pc[c] = "write"
    /\ existingContent' = [existingContent EXCEPT ![c] = <<>>]
    /\ question' = [question EXCEPT ![c] = <<>>]
    /\ context' = [context EXCEPT ![c] = <<>>]
    /\ Decide(c, Err("ErrFileAccess", "write"))
    /\ tempFile' \in SafeWriteTextFailure(tempFile)
    /\ UNCHANGED <<questionID, sinceStart, cleanedUp, missedAnswer, registryVars, notifierVars,
                   artifact, lockFile, events, envVars>>

\* SafeWriteText fails (directory, temporary file or rename): the ask file is
\* as before; Unlock; askQuestionFile, lines 225-227
appendWriteFail(c) ==
    /\ pc[c] = "write"
    /\ lockFile' = FALSE
    /\ existingContent' = [existingContent EXCEPT ![c] = <<>>]
    /\ question' = [question EXCEPT ![c] = <<>>]
    /\ context' = [context EXCEPT ![c] = <<>>]
    /\ Decide(c, Err("ErrFileAccess", "write"))
    /\ tempFile' \in SafeWriteTextFailure(tempFile)
    /\ UNCHANGED <<questionID, sinceStart, cleanedUp, missedAnswer, registryVars, notifierVars,
                   artifact, events, envVars>>

\* the blocks the ask file can hold: an identifier, a question and a context
\* that passed ValidateInput, PENDING or what the human typed
ArtifactBlocks ==
    [id : {QuestionIDs[n] : n \in 1..NumCalls},
     question : {ValidateInput(in[1], MaxQuestionLength).text : in \in Inputs} \ {<<>>},
     context : {ValidateInput(in[2], MaxContextLength).text : in \in Inputs} \ {<<>>},
     answer : {<<"PENDING">>} \cup Answers \cup BlankAnswers]

Artifacts == UNION {[1..n -> ArtifactBlocks] : n \in 0..NumCalls}

\* FindAnswer on every content of the ask file, for every identifier
FindAnswerIn ==
    [a \in Artifacts, id \in {QuestionIDs[n] : n \in 1..NumCalls} |->
        FindAnswer(FileText(a), id)] @@ <<>>

\* lines 271-281 and 285-295: FindAnswer on the content just read
foundAnswer(c) == FindAnswerIn[artifact, questionID[c]]

\* a recordAnswer that counts an answer twice
recordAnswer_twice(id) ==
    /\ answeredQuestions' = answeredQuestions \cup {id}
    /\ totalAnswered' = totalAnswered + 2

\* recordAnswer: s.answeredQuestions[questionID] = true; s.totalAnswered++
recordAnswer(id) ==
    /\ answeredQuestions' = answeredQuestions \cup {id}
    /\ totalAnswered' = totalAnswered + 1

\* askQuestionFile, lines 230-236: the check made right after the append
checkExisting(c) ==
    /\ pc[c] = "check"
    /\ LET r == foundAnswer(c)
       IN  IF r.found
           THEN /\ mutexFree
                /\ recordAnswer(questionID[c])
                /\ Decide(c, Answer(r.answer))
           ELSE /\ Goto(c, "track")
                /\ UNCHANGED <<result, answeredQuestions, totalAnswered>>
    /\ UNCHANGED <<questionID, question, context, existingContent, sinceStart, cleanedUp, missedAnswer,
                   pendingQuestions, totalQuestions, notifierVars, fileVars, envVars>>

\* askQuestionFile, line 230: SafeReadText fails, the check is skipped
checkExistingFail(c) ==
    /\ pc[c] = "check"
    /\ Goto(c, "track")
    /\ UNCHANGED <<questionID, question, context, existingContent, result,
                   sinceStart, cleanedUp, missedAnswer, registryVars, notifierVars, fileVars, envVars>>

\* a track that enters the wait loop without s.mutex.Unlock()
track_keepsMutex(c) ==
    /\ pc[c] = "track"
    /\ mutexFree
    /\ mutex' = c
    /\ pendingQuestions' = trackQuestion(pendingQuestions, questionID[c])
    /\ totalQuestions' = totalQuestions + 1
    /\ sinceStart' = [sinceStart EXCEPT ![c] = 0]
    /\ Goto(c, "wait")
    /\ UNCHANGED <<questionID, question, context, existingContent, result, cleanedUp, missedAnswer,
                   answeredQuestions, totalAnswered, notifierVars, fileVars,
                   shutdown, nextID, humanWrote, parserVars, loopVars, fwMutex,
                   zenityMode>>

\* askQuestionFile, lines 239-255: track the question, start the timeout
track(c) ==
    /\ pc[c] = "track"
    /\ mutexFree
    /\ pendingQuestions' = trackQuestion(pendingQuestions, questionID[c])
    /\ totalQuestions' = totalQuestions + 1
    /\ sinceStart' = [sinceStart EXCEPT ![c] = 0]
    /\ Goto(c, "wait")
    /\ UNCHANGED <<questionID, question, context, existingContent, result, cleanedUp, missedAnswer,
                   answeredQuestions, totalAnswered, notifierVars, fileVars, envVars>>

(***************************************************************************)
(* The wait loop of askQuestionFile, lines 257-305: one select per         *)
(* iteration over shutdown, the timeout timer, the notification channel    *)
(* and the five-second timer.                                              *)
(***************************************************************************)
\* a timer that fires as soon as it is made
timerFired_early(elapsed) == TRUE

\* the timer time.After(s.config.Timeout) has fired
timerFired(elapsed) == elapsed >= Timeout

\* line 298: time.Since(startTime) > s.config.Timeout
sinceExceeded(elapsed) == elapsed > Timeout

\* a branch that returns without its removePendingQuestion
Leave_skipsRemove(c, r) ==
    /\ result' = [result EXCEPT ![c] = r]
    /\ sinceStart' = [sinceStart EXCEPT ![c] = 0]
    /\ missedAnswer' = [missedAnswer EXCEPT ![c] = FALSE]
    /\ Goto(c, "unreg")

\* a branch of the select that ends the loop: removePendingQuestion is next
Leave(c, r) ==
    /\ result' = [result EXCEPT ![c] = r]
    /\ sinceStart' = [sinceStart EXCEPT ![c] = 0]
    /\ missedAnswer' = [missedAnswer EXCEPT ![c] = FALSE]
    /\ Goto(c, "rm")

\* a wait loop whose select has no shutdown case
selectShutdown_missing(c) ==
    /\ pc[c] = "wait"
    /\ shutdown
    /\ UNCHANGED vars

\* case <-s.shutdownCtx.Done()
selectShutdown(c) ==
    /\ pc[c] = "wait"
    /\ shutdown
    /\ Leave(c, Err("ErrServerShutdown", "shutdown"))
    /\ UNCHANGED <<questionID, question, context, existingContent, cleanedUp,
                   registryVars, notifierVars, fileVars, envVars>>

\* case <-timeout
selectTimeout(c) ==
    /\ pc[c] = "wait"
    /\ timerFired(sinceStart[c])
    /\ Leave(c, Err("ErrQuestionTimeout", questionID[c]))
    /\ UNCHANGED <<questionID, question, context, existingContent, cleanedUp,
                   registryVars, notifierVars, fileVars, envVars>>

\* a notification branch that takes the signal for the answer
notifyRead_trustsSignal(c) ==
    /\ pc[c] = "wait"
    /\ chan[c].buf > 0
    /\ chan' = [chan EXCEPT ![c].buf = @ - 1]
    /\ Leave(c, Answer(foundAnswer(c).answer))
    /\ UNCHANGED <<questionID, question, context, existingContent, cleanedUp,
                   registryVars, callbacks, panicked, fileVars, envVars>>

\* case <-notificationChan, lines 271-281, the read succeeds
notifyRead(c) ==
    /\ pc[c] = "wait"
    /\ chan[c].buf > 0
    /\ chan' = [chan EXCEPT ![c].buf = @ - 1]
    /\ IF foundAnswer(c).found
       THEN Leave(c, Answer(foundAnswer(c).answer))
       ELSE UNCHANGED <<pc, result, sinceStart, missedAnswer>>
    /\ UNCHANGED <<questionID, question, context, existingContent, cleanedUp,
                   registryVars, callbacks, panicked, fileVars, envVars>>

\* a notification branch that returns the read error
notifyReadFail_returnsError(c) ==
    /\ pc[c] = "wait"
    /\ chan[c].buf > 0
    /\ chan' = [chan EXCEPT ![c].buf = @ - 1]
    /\ Leave(c, Err("ErrFileAccess", "read"))
    /\ UNCHANGED <<questionID, question, context, existingContent, cleanedUp,
                   registryVars, callbacks, panicked, fileVars, envVars>>

\* case <-notificationChan, lines 272-274: the read fails, continue
notifyReadFail(c) ==
    /\ pc[c] = "wait"
    /\ chan[c].buf > 0
    /\ chan' = [chan EXCEPT ![c].buf = @ - 1]
    /\ missedAnswer' = [missedAnswer EXCEPT ![c] = @ \/ foundAnswer(c).found]
    /\ UNCHANGED <<pc, questionID, question, context, existingContent, result, sinceStart,
                   cleanedUp, registryVars, callbacks, panicked, fileVars, envVars>>

\* case <-time.After(5 * time.Second), lines 285-303, the read succeeds
tickRead(c) ==
    /\ pc[c] = "wait"
    /\ IF foundAnswer(c).found
       THEN Leave(c, Answer(foundAnswer(c).answer))
       ELSE IF sinceExceeded(sinceStart[c])
       THEN Leave(c, Err("ErrQuestionTimeout", questionID[c]))
       ELSE UNCHANGED <<pc, result, sinceStart, missedAnswer>>
    /\ UNCHANGED <<questionID, question, context, existingContent, cleanedUp,
                   registryVars, notifierVars, fileVars, envVars>>

\* case <-time.After(5 * time.Second), lines 285-288: the read fails, continue
tickReadFail(c) ==
    /\ pc[c] = "wait"
    /\ missedAnswer' = [missedAnswer EXCEPT ![c] = @ \/ foundAnswer(c).found]
    /\ UNCHANGED <<pc, questionID, question, context, existingContent, result, sinceStart,
                   cleanedUp, registryVars, notifierVars, fileVars, envVars>>

\* a removal that unsubscribes the call while it holds the registry mutex
removePending_unsubscribes(c) ==
    /\ pc[c] = "rm"
    /\ mutexFree /\ fwMutexFree
    /\ pendingQuestions' = removePendingQuestion(pendingQuestions, questionID[c])
    /\ SetNotifier(UnregisterCallback(Notifier, questionID[c]))
    /\ IF result[c].kind = "answer"
       THEN recordAnswer(questionID[c])
       ELSE UNCHANGED <<answeredQuestions, totalAnswered>>
    /\ Goto(c, "unreg")
    /\ UNCHANGED <<questionID, question, context, existingContent, result,
                   sinceStart, cleanedUp, missedAnswer, totalQuestions, fileVars, envVars>>

\* s.removePendingQuestion(questionID) on each exit of the loop, and
\* s.recordAnswer(questionID) after it when an answer was found
removePending(c) ==
    /\ pc[c] = "rm"
    /\ mutexFree
    /\ pendingQuestions' = removePendingQuestion(pendingQuestions, questionID[c])
    /\ IF result[c].kind = "answer"
       THEN recordAnswer(questionID[c])
       ELSE UNCHANGED <<answeredQuestions, totalAnswered>>
    /\ Goto(c, "unreg")
    /\ UNCHANGED <<questionID, question, context, existingContent, result,
                   sinceStart, cleanedUp, missedAnswer, totalQuestions, notifierVars, fileVars, envVars>>

\* a return that takes the block of the call out of the ask file
unregister_dropsBlock(c) ==
    /\ pc[c] = "unreg"
    /\ fwMutexFree
    /\ SetNotifier(UnregisterCallback(Notifier, questionID[c]))
    /\ artifact' = SelectSeq(artifact, LAMBDA b : b.id # questionID[c])
    /\ Goto(c, "done")
    /\ UNCHANGED <<questionID, question, context, existingContent, result,
                   sinceStart, cleanedUp, missedAnswer, registryVars,
                   lockFile, tempFile, events, envVars>>

\* line 222: defer s.watcher.UnregisterCallback(questionID), then the return
unregister(c) ==
    /\ pc[c] = "unreg"
    /\ fwMutexFree
    /\ SetNotifier(UnregisterCallback(Notifier, questionID[c]))
    /\ Goto(c, "done")
    /\ UNCHANGED <<questionID, question, context, existingContent, result,
                   sinceStart, cleanedUp, missedAnswer, registryVars, fileVars, envVars>>

(***************************************************************************)
(* Background tasks and the environment.                                   *)
(***************************************************************************)
\* a filter that looks at the kind of the event only
eventMatches_anyPath(e) == "Write" \in e.op \/ "Create" \in e.op

\* watchLoop, lines 102-104: the event is a write or a create of the ask file
eventMatches(e) == e.name = "ask" /\ ("Write" \in e.op \/ "Create" \in e.op)

\* watchLoop, lines 96-107: an event arrives
watchEvent ==
    /\ watchLoop = "running"
    /\ events # <<>>
    /\ events' = Tail(events)
    /\ IF eventMatches(Head(events))
       THEN fwMutexFree /\ SetNotifier(NotifyAll(Notifier))
       ELSE UNCHANGED notifierVars
    /\ UNCHANGED <<callVars, registryVars, artifact, lockFile, tempFile, envVars>>

\* cleanupLoop, lines 16-17: the ticker fires
sweep ==
    /\ cleanupLoop = "running"
    /\ mutexFree
    /\ pendingQuestions' = cleanupTimeouts(pendingQuestions)
    /\ pendingQuestions' # pendingQuestions
    /\ UNCHANGED <<callVars, answeredQuestions, totalQuestions, totalAnswered,
                   notifierVars, fileVars, envVars>>

\* watchLoop, lines 109-114: case err, ok := <-fw.watcher.Errors with ok true:
\* log.Printf, and the loop goes on
watchError ==
    /\ watchLoop = "running"
    /\ watcherOpen
    /\ UNCHANGED vars

\* watchLoop, lines 89 and 93-95, 97-99, 110-112: case <-fw.ctx.Done(), or a
\* channel of the closed handle; return, and the deferred fw.watcher.Close().
\* Events not yet received are lost.
watchExit ==
    /\ watchLoop = "running"
    /\ shutdown
    /\ watchLoop' = "exited"
    /\ watcherOpen' = FALSE
    /\ events' = <<>>
    /\ UNCHANGED <<callVars, registryVars, notifierVars, artifact, lockFile, tempFile,
                   shutdown, nextID, humanWrote, parserVars, cleanupLoop, mutexVars,
                   zenityMode>>

\* a cleanup loop whose select has no cancellation case
cleanupExit_missing ==
    /\ cleanupLoop = "running"
    /\ shutdown
    /\ UNCHANGED vars

\* cleanupLoop, lines 14-15: case <-s.shutdownCtx.Done(): return
cleanupExit ==
    /\ cleanupLoop = "running"
    /\ shutdown
    /\ cleanupLoop' = "exited"
    /\ UNCHANGED <<callVars, registryVars, notifierVars, fileVars,
                   shutdown, nextID, humanWrote, parserVars, watchLoop, watcherOpen, mutexVars,
                   zenityMode>>

\* Close: s.shutdownCancel(), then s.watcher.Close(): fw.cancel() and
\* fw.watcher.Close().  Each background loop leaves at a later select of its
\* own; a select with another case ready may take that case first.
Close ==
    /\ ~shutdown
    /\ shutdown' = TRUE
    /\ watcherOpen' = FALSE
    /\ UNCHANGED <<callVars, registryVars, notifierVars, fileVars,
                   nextID, humanWrote, parserVars, watchLoop, cleanupLoop, mutexVars,
                   zenityMode>>

\* the human replaces the answer field of a block and saves the file
humanEdit(i, text) ==
    /\ i \in 1..Len(artifact)
    /\ Cardinality(humanWrote \cup {<<artifact[i].id, text>>}) <= MaxEdits
    /\ artifact' = [artifact EXCEPT ![i].answer = text]
    /\ humanWrote' = humanWrote \cup {<<artifact[i].id, text>>}
    /\ events' \in Emitted(Event("ask", {"Write"}))
    /\ <<artifact', humanWrote', events'>> # <<artifact, humanWrote, events>>
    /\ UNCHANGED <<callVars, registryVars, notifierVars, lockFile, tempFile,
                   shutdown, nextID, parserVars, loopVars, mutexVars,
                   zenityMode>>

\* time passes
advance ==
    /\ \/ \E id \in DOMAIN pendingQuestions : pendingQuestions[id] < MaxElapsed
       \/ \E c \in Calls : pc[c] \in {"wait", "dialog"} /\ sinceStart[c] < MaxElapsed
    /\ pendingQuestions' = [id \in DOMAIN pendingQuestions |-> Older(pendingQuestions[id])]
    /\ sinceStart' = [c \in Calls |->
                        IF pc[c] \in {"wait", "dialog"}
                        THEN Older(sinceStart[c]) ELSE sinceStart[c]]
    /\ UNCHANGED <<pc, questionID, question, context, existingContent, result, cleanedUp, missedAnswer,
                   answeredQuestions, totalQuestions, totalAnswered,
                   notifierVars, fileVars, envVars>>

\* the steps of an ask call whose arguments are among ins
callStepOn(c, ins) ==
    \/ \E in \in ins : askQuestion(c, in[1], in[2])
    \/ askCleanup(c)
    \/ register(c)
    \/ lockFail(c)
    \/ lockRead(c)
    \/ lockReadFail(c)
    \/ appendWrite(c)
    \/ appendWriteFail(c)
    \/ checkExisting(c)
    \/ checkExistingFail(c)
    \/ track(c)
    \/ selectShutdown(c)
    \/ selectTimeout(c)
    \/ notifyRead(c)
    \/ notifyReadFail(c)
    \/ tickRead(c)
    \/ tickReadFail(c)
    \/ removePending(c)
    \/ unregister(c)

callStep(c) == callStepOn(c, Inputs)

\* the steps of the engine and its environment: the ask calls take their
\* arguments from ins, the human types one of texts
NextWith(ins, texts) ==
    \/ \E c \in Calls : callStepOn(c, ins)
    \/ watchEvent
    \/ watchError
    \/ watchExit
    \/ sweep
    \/ cleanupExit
    \/ Close
    \/ \E i \in 1..NumCalls, text \in texts : humanEdit(i, text)
    \/ advance

NextOn(ins) == NextWith(ins, Answers)

Next == NextOn(Inputs)

Spec == Init /\ [][Next]_vars

\* the ask calls on questions that hold no answer marker
PlainInputs == Inputs \ { <<MarkerQ, NormalC>> }

PlainNext == NextOn(PlainInputs)

PlainSpec == Init /\ [][PlainNext]_vars

(***************************************************************************)
(* FindAnswer on the texts a human's editing can leave in the ask file:    *)
(* blocks as AppendQuestion writes them, the answer field filled in or the *)
(* answer line deleted.                                                    *)
(***************************************************************************)
\* blocks in a text
MaxParserBlocks == 2

ParserIDs == {"Q1", "Q2"}

\* what stands in an answer field: the sentinel in three spellings and with
\* blanks around it, one-line answers, answers of several lines
ParserAnswers ==
    { <<"PENDING">>, <<"pending">>, <<"SP", "Pending", "SP">>,
      <<"blue">>, <<"green">>, <<"PENDING", "SP", "blue">>,
      <<"blue", "NL", "green">>, <<"blue", "NL", "NL", "green">> }

ParserBlocks == [id : ParserIDs, marker : BOOLEAN, answer : ParserAnswers]

ParserTexts ==
    UNION {[1..n -> ParserBlocks] : n \in 0..MaxParserBlocks}

\* the block AppendQuestion formats, the line of the answer deleted
FormatBlockNoAnswerLine(b) ==
    <<"NL", "RULE", "NL", "NL", "HASH", b.id, "NL", "NL",
      "TSL", "SP", "TS", "SP", "SP", "NL",
      "QL", "SP">> \o b.question \o <<"SP", "SP", "NL",
      "CL", "SP">> \o b.context \o <<"SP", "SP", "NL", "NL">>

ParserBlockText(b) ==
    LET block == [id |-> b.id, question |-> <<"w">>, context |-> <<"c">>,
                  answer |-> b.answer]
    IN  IF b.marker THEN FormatBlock(block) ELSE FormatBlockNoAnswerLine(block)

RECURSIVE ParserRender(_)
ParserRender(blocks) ==
    IF blocks = <<>> THEN <<>>
    ELSE ParserBlockText(Head(blocks)) \o ParserRender(Tail(blocks))

ParserText(blocks) == Preamble \o ParserRender(blocks)

ParserInit ==
    /\ EngineInit
    /\ parserBlocks \in ParserTexts
    /\ wantedID \in ParserIDs \cup {"Q3"}
    /\ parsed = NotParsed

\* answer, found := FindAnswer(content, questionID)
applyFindAnswer ==
    /\ parsed = NotParsed
    /\ parsed' = FindAnswer(ParserText(parserBlocks), wantedID)
    /\ UNCHANGED <<callVars, registryVars, notifierVars, fileVars,
                   shutdown, nextID, humanWrote, parserBlocks, wantedID, loopVars, mutexVars,
                   zenityMode>>

ParserNext == applyFindAnswer

ParserSpec == ParserInit /\ [][ParserNext]_vars

(***************************************************************************)
(* Fairness.  The Go scheduler runs every runnable goroutine, and a select *)
(* with a ready case proceeds: an ask call that can take a step takes one. *)
(* Nothing makes time pass, the watcher deliver, the sweep run or the      *)
(* human type.                                                             *)
(***************************************************************************)
\* the arguments of the ask calls in the specifications with fairness: one
\* pair that is accepted and one that is turned away
LiveInputs == { <<NormalQ, NormalC>>, <<LongQ, NormalC>> }

LiveNext == NextOn(LiveInputs)

ShutdownSpec ==
    /\ Init /\ [][LiveNext]_vars
    /\ \A c \in Calls :
          /\ WF_vars(selectShutdown(c))
          /\ WF_vars(removePending(c))
          /\ WF_vars(unregister(c))

LiveSpec == ShutdownSpec /\ \A c \in Calls : WF_vars(tickRead(c))

(***************************************************************************)
(* The watcher with the other events of the watched directory: the lock    *)
(* file and the temporary file come and go, files are renamed, removed     *)
(* and have their mode changed.  Such an event takes a place in the queue  *)
(* and has no other effect, so Spec leaves it out.                         *)
(***************************************************************************)
OtherEvents ==
    { Event("ask.lock", {"Create"}), Event("ask.tmp", {"Write"}),
      Event("notes", {"Write"}), Event("ask", {"Rename"}),
      Event("ask", {"Remove"}), Event("ask", {"Chmod"}) }

\* fsnotify reports e
otherEvent(e) ==
    /\ watcherOpen
    /\ Len(events) < MaxEvents
    /\ events' = Append(events, e)
    /\ UNCHANGED <<callVars, registryVars, notifierVars, artifact, lockFile, tempFile, envVars>>

WatchNext ==
    \/ LiveNext
    \/ \E e \in OtherEvents : otherEvent(e)

WatchSpec == Init /\ [][WatchNext]_vars

(***************************************************************************)
(* The dialog path: askQuestionZenity and ZenityHandler.AskQuestion.       *)
(***************************************************************************)
\* what the human does with the entry dialog: types a text and confirms, or
\* confirms the empty or a blank entry
DialogEntries == { <<"SP", "blue", "SP">>, <<>>, <<"SP", "NL">> }

DialogErr(detail) == Err("DialogError", detail)

\* ZenityHandler.AskQuestion, lines 58-79, on what zenity.Entry returns
ZenityAskQuestion(outcome, entry) ==
    CASE outcome = "canceled" -> DialogErr("user canceled the question dialog")
      [] outcome = "deadline" -> DialogErr("dialog timeout")
      [] outcome = "failed"   -> DialogErr("zenity dialog error")
      [] OTHER -> IF TrimSpace(entry) = <<>>
                  THEN DialogErr("empty answer provided")
                  ELSE Answer(TrimSpace(entry))

\* askQuestionZenity, lines 190-193: track the question
dialogTrack(c) ==
    /\ pc[c] = "ztrack"
    /\ mutexFree
    /\ pendingQuestions' = trackQuestion(pendingQuestions, questionID[c])
    /\ totalQuestions' = totalQuestions + 1
    /\ sinceStart' = [sinceStart EXCEPT ![c] = 0]
    /\ Goto(c, "dialog")
    /\ UNCHANGED <<questionID, question, context, existingContent, result, cleanedUp, missedAnswer,
                   answeredQuestions, totalAnswered, notifierVars, fileVars, envVars>>

\* askQuestionZenity, line 196: s.zenityHandler.AskQuestion returns; the
\* deadline of the dialog is z.timeout after it was shown
dialogReturn(c, outcome, entry) ==
    /\ pc[c] = "dialog"
    /\ outcome = "deadline" => timerFired(sinceStart[c])
    /\ result' = [result EXCEPT ![c] = ZenityAskQuestion(outcome, entry)]
    /\ sinceStart' = [sinceStart EXCEPT ![c] = 0]
    /\ question' = [question EXCEPT ![c] = <<>>]
    /\ context' = [context EXCEPT ![c] = <<>>]
    /\ Goto(c, "zrm")
    /\ UNCHANGED <<questionID, existingContent, cleanedUp, missedAnswer,
                   registryVars, notifierVars, fileVars, envVars>>

\* a dialog path that returns an error without removePendingQuestion
dialogRemove_onAnswerOnly(c) ==
    /\ pc[c] = "zrm"
    /\ mutexFree
    /\ IF result[c].kind = "answer"
       THEN /\ pendingQuestions' = removePendingQuestion(pendingQuestions, questionID[c])
            /\ recordAnswer(questionID[c])
       ELSE UNCHANGED <<pendingQuestions, answeredQuestions, totalAnswered>>
    /\ Goto(c, "done")
    /\ UNCHANGED <<questionID, question, context, existingContent, result,
                   sinceStart, cleanedUp, missedAnswer, totalQuestions, notifierVars, fileVars, envVars>>

\* askQuestionZenity, lines 199-207: removePendingQuestion, then the error
\* is returned or recordAnswer is called and the answer returned
dialogRemove(c) ==
    /\ pc[c] = "zrm"
    /\ mutexFree
    /\ pendingQuestions' = removePendingQuestion(pendingQuestions, questionID[c])
    /\ IF result[c].kind = "answer"
       THEN recordAnswer(questionID[c])
       ELSE UNCHANGED <<answeredQuestions, totalAnswered>>
    /\ Goto(c, "done")
    /\ UNCHANGED <<questionID, question, context, existingContent, result,
                   sinceStart, cleanedUp, missedAnswer, totalQuestions, notifierVars, fileVars, envVars>>

DialogOutcomes == {"entered", "canceled", "deadline", "failed"}

dialogStep(c) ==
    \/ \E in \in Inputs : askQuestion(c, in[1], in[2])
    \/ askCleanup(c)
    \/ dialogTrack(c)
    \/ \E outcome \in DialogOutcomes, entry \in DialogEntries :
          dialogReturn(c, outcome, entry)
    \/ dialogRemove(c)

DialogInit ==
    /\ ServerInit(TRUE, <<>>)
    /\ parserBlocks = <<>>
    /\ wantedID = "none"
    /\ parsed = NotParsed

DialogNext ==
    \/ \E c \in Calls : dialogStep(c)
    \/ sweep
    \/ cleanupExit
    \/ Close
    \/ advance

DialogSpec == DialogInit /\ [][DialogNext]_vars

(***************************************************************************)
(* The engine started on an ask file that an earlier session has left.     *)
(***************************************************************************)
\* a block of the earlier session, answered
OldBlock(id) ==
    [id |-> id, question |-> NormalQ, context |-> NormalC, answer |-> <<"blue">>]

\* a file of the earlier session that is larger than MaxFileSize
OldFile == <<OldBlock("P1"), OldBlock("P2"), OldBlock("P3")>>

\* the ask file does not exist and initFile makes it, or it is OldFile
SizeInit ==
    /\ \E file \in {<<>>, OldFile} : ServerInit(FALSE, file)
    /\ parserBlocks = <<>>
    /\ wantedID = "none"
    /\ parsed = NotParsed

SizeSpec == SizeInit /\ [][LiveNext]_vars

\* the engine with a human who answers or leaves the answer field blank
EditNext == NextWith(LiveInputs, Answers \cup BlankAnswers)

EditSpec == Init /\ [][EditNext]_vars

\* Close with fairness for the two background loops: a select whose
\* cancellation case stays ready takes it
CloseSpec ==
    /\ Init /\ [][LiveNext]_vars
    /\ WF_vars(watchExit)
    /\ WF_vars(cleanupExit)

(***************************************************************************)
(* Properties.                                                             *)
(***************************************************************************)
\* the calls inside the wait loop, up to the removePendingQuestion of the
\* branch that leaves it
Waiting == {c \in Calls : pc[c] \in {"wait", "rm"}}

\* the calls between the making of their identifier and their return
InFlight == {c \in Calls : pc[c] \notin {"idle", "done"}}

\* every step that N allows from the state satisfies A
EveryStep(N, A) == ~ENABLED (N /\ ~A)

\* what an ask call that returns early must leave alone
Untouched ==
    UNCHANGED <<artifact, lockFile, tempFile, events, registryVars, notifierVars, nextID>>

\* C1: an ask call that returns an answer returns the text the human typed
\* into the answer field of its own question, trimmed.
C1_AnswerIsHumanText ==
    \A c \in Calls :
        (pc[c] = "done" /\ result[c].kind = "answer") =>
            \E w \in humanWrote :
                w[1] = questionID[c] /\ result[c].value = TrimSpace(w[2])

\* C2: an ask call with valid arguments that is validated while the registry
\* holds MaxPendingQuestions entries or more returns at once with the
\* too-many-pending error, and the artifact, the registry and the
\* subscription table are as before.
C2_TooManyPending ==
    EveryStep(PlainNext,
          /\ \A c \in Calls :
                (/\ pc[c] = "idle" /\ pc'[c] # "idle"
                 /\ count(pendingQuestions) >= MaxPendingQuestions
                 /\ Len(question'[c]) <= MaxQuestionLength
                 /\ Len(context'[c]) <= MaxContextLength)
                => /\ pc'[c] = "done"
                   /\ result'[c] = Err("ErrTooManyQuestions", "pending")
                   /\ Untouched)

C2_Witness ==
    \E c, d \in Calls :
        /\ pc[c] = "done" /\ result[c].kind = "ErrTooManyQuestions"
        /\ pc[d] = "wait" /\ count(pendingQuestions) = MaxPendingQuestions

\* C3: a question longer than MaxQuestionLength is turned away with the
\* question's validation error, otherwise a context longer than
\* MaxContextLength with the context's, in both cases with nothing changed;
\* arguments of exactly the permitted lengths pass validation.
C3_InputLimits ==
    EveryStep(PlainNext,
          /\ \A c \in Calls :
                (pc[c] = "idle" /\ pc'[c] # "idle") =>
                    IF Len(question'[c]) > MaxQuestionLength
                    THEN /\ pc'[c] = "done"
                         /\ result'[c] = Err("ErrInputValidation", "Question")
                         /\ Untouched
                    ELSE IF Len(context'[c]) > MaxContextLength
                    THEN /\ pc'[c] = "done"
                         /\ result'[c] = Err("ErrInputValidation", "Context")
                         /\ Untouched
                    ELSE result'[c].kind # "ErrInputValidation")

C3_Witness ==
    \E c, d \in Calls :
        /\ result[c] = Err("ErrInputValidation", "Question")
        /\ Len(question[c]) > MaxQuestionLength /\ Len(context[c]) > MaxContextLength
        /\ pc[d] = "lock"
        /\ Len(question[d]) = MaxQuestionLength /\ Len(context[d]) = MaxContextLength

C5_ShutdownReleasesWaiters ==
    /\ \A c \in Calls :
          (shutdown /\ pc[c] = "wait") ~>
              (pc[c] = "done" /\ questionID[c] \notin DOMAIN pendingQuestions)
    /\ [](\A c \in Calls : result[c].kind = "ErrServerShutdown" => shutdown)

C5_Witness ==
    \E c \in Calls :
        /\ pc[c] = "done" /\ result[c] = Err("ErrServerShutdown", "shutdown")
        /\ questionID[c] \notin DOMAIN pendingQuestions

C8_CountUnchangedByFailedAppend ==
    \A c \in Calls :
        (pc[c] = "done" /\ result[c] = Err("ErrFileAccess", "write")) =>
            /\ questionID[c] \notin DOMAIN callbacks
            /\ cleanedUp[c] = 0

\* C8, amended: an ask call whose append fails returns the artifact error
\* with its subscription removed and without an entry of its own in the
\* registry; before its question is tracked a call changes the registry only
\* by the expired entries its own cleanupTimeouts deletes.
C8_FailedAppendAddsNoEntry ==
    /\ (\A c \in Calls :
          (pc[c] = "done" /\ result[c].kind = "ErrFileAccess") =>
              /\ questionID[c] \notin DOMAIN callbacks
              /\ questionID[c] \notin DOMAIN pendingQuestions)
    /\ EveryStep(PlainNext,
          /\ \A c \in Calls :
               (pc[c] \in {"idle", "cleanup", "register", "lock", "write", "check"}
                   /\ pc'[c] # pc[c]) =>
                   \/ pendingQuestions' = pendingQuestions
                   \/ /\ pc[c] = "cleanup"
                      /\ pendingQuestions' = cleanupTimeouts(pendingQuestions))

C8_Witness ==
    \E c, d \in Calls :
        /\ pc[c] = "done" /\ result[c] = Err("ErrFileAccess", "write")
        /\ cleanedUp[c] = 1
        /\ pc[d] = "wait"

C10_SecondCallChangesNothing ==
    /\ ~panicked
    /\ \A id \in DOMAIN callbacks \cup {questionID[c] : c \in Calls} :
          LET once == UnregisterCallback(Notifier, id)
              twice == UnregisterCallback(once, id)
          IN  /\ twice = once
              /\ ~twice.panicked
              /\ \A ch \in Calls :
                    (id \notin DOMAIN callbacks \/ ch # callbacks[id]) =>
                        once.chan[ch] = chan[ch]
    /\ \A id \in DOMAIN pendingQuestions \cup {questionID[c] : c \in Calls} :
          LET once == removePendingQuestion(pendingQuestions, id)
          IN  /\ removePendingQuestion(once, id) = once
              /\ DOMAIN once = DOMAIN pendingQuestions \ {id}

C10_Witness ==
    \E c, d \in Calls :
        /\ pc[c] = "done" /\ chan[c].closed
        /\ pc[d] = "rm" /\ questionID[d] \notin DOMAIN pendingQuestions
        /\ questionID[d] \in DOMAIN callbacks /\ chan[d].buf = 1

\* the entries of calls that a step takes out of the registry
Removed == {c \in Calls : /\ questionID[c] \in DOMAIN pendingQuestions
                          /\ questionID[c] \notin DOMAIN pendingQuestions'}

\* C11: a call leaves the wait loop only through a branch that decides on
\* shutdown, timeout or an answer and runs removePendingQuestion before the
\* return, so no call past that point has an entry; an entry is made once,
\* when its call starts to wait, and is taken out once, by the call or by the
\* sweep, whichever is first; count() drops in a step by exactly the entries
\* of waiting calls the step takes out; a result once decided stays.
C11_ExitsRemoveOnce ==
    /\ (\A c \in Calls :
          /\ pc[c] \in {"unreg", "done"} => questionID[c] \notin DOMAIN pendingQuestions
          /\ pc[c] = "done" => result[c].kind # "none")
    /\ EveryStep(PlainNext,
          /\ \A c \in Calls :
               /\ (pc[c] = "wait" /\ pc'[c] # "wait") =>
                      /\ pc'[c] = "rm"
                      /\ result'[c].kind \in {"ErrServerShutdown", "ErrQuestionTimeout", "answer"}
               /\ pc[c] = "rm" => pc'[c] \in {"rm", "unreg"}
               /\ pc[c] \in {"wait", "rm", "unreg", "done"} =>
                      pc'[c] \in {"wait", "rm", "unreg", "done"}
               /\ (questionID[c] \notin DOMAIN pendingQuestions
                      /\ questionID'[c] \in DOMAIN pendingQuestions') =>
                      (pc[c] = "track" /\ pc'[c] = "wait")
               /\ result[c].kind # "none" => result'[c] = result[c]
          /\ /\ Removed \subseteq Waiting
             /\ count(pendingQuestions) - count(pendingQuestions') <= Cardinality(Removed)
             /\ count(pendingQuestions') >= 0)

C11_Witness ==
    \E c, d \in Calls :
        /\ pc[c] = "rm" /\ result[c].kind = "answer"
        /\ questionID[c] \notin DOMAIN pendingQuestions
        /\ pc[d] = "done" /\ result[d].kind = "ErrServerShutdown"

\* C12: no channel operation has panicked; every channel in the subscription
\* table is open and holds at most ChanCap signals; a NotifyAll in any
\* reachable state panics on nothing, fills the subscribed channels that have
\* room and leaves the full ones and the unsubscribed ones as they are; the
\* watch loop's delivery of an event does just that.
C12_NotifyAllSafe ==
    /\ (/\ ~panicked
        /\ \A id \in DOMAIN callbacks :
              /\ ~chan[callbacks[id]].closed
              /\ chan[callbacks[id]].buf \in 0..ChanCap
        /\ LET n == NotifyAll(Notifier)
           IN  /\ ~n.panicked
               /\ n.callbacks = callbacks
               /\ \A ch \in Calls :
                     IF ch \in Subscribed(Notifier)
                     THEN n.chan[ch] = [buf |-> ChanCap, closed |-> FALSE]
                     ELSE n.chan[ch] = chan[ch])
    /\ EveryStep(PlainNext,
          /\ (/\ events # <<>> /\ eventMatches(Head(events))
              /\ events' = Tail(events) /\ watchLoop' = "running") =>
                 /\ callbacks' = callbacks
                 /\ ~panicked'
                 /\ \A ch \in Calls :
                       IF ch \in Subscribed(Notifier)
                       THEN chan'[ch] = [buf |-> ChanCap, closed |-> FALSE]
                       ELSE chan'[ch] = chan[ch])

C12_Witness ==
    \E c, d \in Calls :
        /\ pc[c] = "wait" /\ questionID[c] \in DOMAIN callbacks /\ chan[c].buf = ChanCap
        /\ pc[d] = "done" /\ chan[d].closed /\ questionID[d] \notin DOMAIN callbacks
        /\ events # <<>> /\ eventMatches(Head(events))

\* the calls whose AppendQuestion returned without an error
Appended == {c \in Calls : \/ pc[c] \in {"check", "track", "wait", "rm"}
                           \/ /\ pc[c] \in {"unreg", "done"}
                              /\ result[c].kind \in {"answer", "ErrQuestionTimeout",
                                                     "ErrServerShutdown"}}

\* the identifiers of the blocks in the ask file
BlockIDs == {artifact[i].id : i \in 1..Len(artifact)}

\* C13: at most one call is between the read and the write of its
\* AppendQuestion, and the lock file exists just then; the write of an append
\* keeps every block the file held and adds the call's own; the block of
\* every call whose append succeeded is in the file, once.
C13_AppendsSerialized ==
    /\ (/\ Cardinality({c \in Calls : pc[c] = "write"}) <= 1
        /\ lockFile <=> \E c \in Calls : pc[c] = "write"
        /\ \A c \in Appended :
              Cardinality({i \in 1..Len(artifact) : artifact[i].id = questionID[c]}) = 1)
    /\ EveryStep(PlainNext,
          /\ \A c \in Calls :
               (pc[c] = "write" /\ pc'[c] = "check") =>
                   BlockIDs' = BlockIDs \cup {questionID[c]})

C13_Witness ==
    \E c, d \in Calls :
        /\ pc[c] = "wait" /\ questionID[c] \in BlockIDs
        /\ pc[d] = "wait" /\ questionID[d] \in BlockIDs
        /\ artifact[1].id = questionID[d] /\ c < d

\* C14: a call that finds the lock file there when it comes to its append
\* fails at that one attempt, with the artifact, the lock file and the
\* registry as they were, and the error it returns is of another kind than
\* the error of a failed read or write of the artifact.
C14_LockContentionDistinct ==
    [][\A c \in Calls :
          (pc[c] = "lock" /\ lockFile /\ pc'[c] # "lock") =>
              /\ pc'[c] = "unreg"
              /\ UNCHANGED <<artifact, lockFile, tempFile, registryVars>>
              /\ result'[c].kind \notin {"none", "answer"}
              /\ result'[c].kind # Err("ErrFileAccess", "read").kind
              /\ result'[c].kind # Err("ErrFileAccess", "write").kind]_vars

\* the first block of the text whose header names the identifier, 0 if none
RECURSIVE OwnBlock(_, _, _)
OwnBlock(blocks, id, i) ==
    IF i > Len(blocks) THEN 0
    ELSE IF blocks[i].id = id THEN i
    ELSE OwnBlock(blocks, id, i + 1)

\* C15: FindAnswer reports not-found for an identifier no block has and for
\* a block without an answer marker, and otherwise reports what stands in
\* the answer field of the identifier's own block, trimmed, unless that is
\* PENDING: never what stands in another block.
C15_ScansOwnBlockOnly ==
    parsed # NotParsed =>
        LET own == OwnBlock(parserBlocks, wantedID, 1)
        IN  IF own = 0 \/ ~parserBlocks[own].marker
            THEN parsed = NotFound
            ELSE LET answer == TrimSpace(parserBlocks[own].answer)
                 IN  parsed = IF IsPending(answer) THEN NotFound
                               ELSE [found |-> TRUE, answer |-> answer]

\* C16: when the SafeWriteText of an append fails, no temporary file is left
\* and the ask file is as it was; the ask file changes only as a whole, to
\* the content of a completed append or of a human's save.
C16_WriteAtomic ==
    /\ [][\A c \in Calls :
            (pc[c] = "write" /\ result'[c].kind = "ErrFileAccess") =>
                /\ ~tempFile'
                /\ artifact' = artifact]_vars
    /\ [][artifact' # artifact =>
            \/ \E c \in Calls :
                  /\ pc[c] = "write" /\ pc'[c] = "check"
                  /\ artifact' = AppendedContent(existingContent[c], questionID[c],
                                                 question[c], context[c])
            \/ \E i \in 1..Len(artifact), text \in Answers :
                  artifact' = [artifact EXCEPT ![i].answer = text]]_vars

\* C17: a call that has come to its append is subscribed, with an open
\* channel, and has neither a block in the ask file nor an entry in the
\* registry; the step that puts its block into the file finds it subscribed;
\* the step that makes its entry finds its block in the file; every entry
\* belongs to a block.
C17_SubscribeAppendTrack ==
    /\ (/\ \A c \in Calls :
              pc[c] \in {"lock", "write"} =>
                  /\ questionID[c] \in DOMAIN callbacks
                  /\ ~chan[callbacks[questionID[c]]].closed
                  /\ questionID[c] \notin BlockIDs
                  /\ questionID[c] \notin DOMAIN pendingQuestions
        /\ DOMAIN pendingQuestions \subseteq BlockIDs)
    /\ EveryStep(PlainNext,
          /\ \A c \in Calls :
               /\ (questionID[c] \notin BlockIDs /\ questionID[c] \in BlockIDs') =>
                      (pc[c] = "write" /\ questionID[c] \in DOMAIN callbacks)
               /\ (questionID[c] \notin DOMAIN pendingQuestions
                      /\ questionID[c] \in DOMAIN pendingQuestions') =>
                      /\ questionID[c] \in BlockIDs
                      /\ questionID[c] \in DOMAIN callbacks)

C17_Witness ==
    \E c, d \in Calls :
        /\ pc[c] = "check" /\ questionID[c] \in BlockIDs
        /\ questionID[c] \in DOMAIN callbacks /\ questionID[c] \notin DOMAIN pendingQuestions
        /\ pc[d] = "wait" /\ questionID[d] \in DOMAIN pendingQuestions

\* the calls between their RegisterCallback and their deferred
\* UnregisterCallback
Registered == {c \in Calls : pc[c] \in {"lock", "write", "check", "track",
                                        "wait", "rm", "unreg"}}

\* C18: the subscribed identifiers are those of the calls between their
\* RegisterCallback and their return, each with the channel that call made,
\* open; a call that has returned, by whatever exit, has no subscription, and
\* the channel it made is closed.
C18_SubscriptionScoped ==
    /\ DOMAIN callbacks \subseteq {questionID[c] : c \in InFlight}
    /\ DOMAIN callbacks = {questionID[c] : c \in Registered}
    /\ \A c \in Registered :
          callbacks[questionID[c]] = c /\ ~chan[c].closed
    /\ \A c \in Calls :
          pc[c] = "done" =>
              /\ questionID[c] \notin DOMAIN callbacks
              /\ c \notin Subscribed(Notifier)
              /\ result[c].kind \in {"answer", "ErrQuestionTimeout", "ErrServerShutdown",
                                     "ErrFileAccess"} => chan[c].closed

C18_Witness ==
    \E c, d \in Calls :
        /\ pc[c] = "done" /\ result[c].kind = "ErrQuestionTimeout" /\ chan[c].closed
        /\ pc[d] = "done" /\ result[d] = Err("ErrFileAccess", "lock") /\ chan[d].closed
        /\ callbacks = EmptyMap

\* C19: a waiting call decides on an answer only in a step in which
\* FindAnswer finds one for its identifier in the ask file as it is, and the
\* answer is what FindAnswer returns; a step that takes a notification from
\* its channel and finds no answer leaves the call waiting, with its result,
\* the registry, the subscription table and the ask file as they were; so
\* does every step of the call that leaves it waiting.
C19_AnswerOnlyFromFreshRead ==
    EveryStep(PlainNext,
          /\ \A c \in Calls :
                pc[c] = "wait" =>
                    /\ result'[c].kind = "answer" =>
                           /\ foundAnswer(c).found
                           /\ result'[c].value = foundAnswer(c).answer
                           /\ pc'[c] = "rm"
                    /\ (chan'[c].buf < chan[c].buf /\ ~foundAnswer(c).found) =>
                           /\ pc'[c] = "wait"
                           /\ result'[c] = result[c]
                           /\ UNCHANGED <<registryVars, callbacks, artifact, panicked>>
                    /\ (chan'[c].buf < chan[c].buf /\ pc'[c] = "wait") =>
                           UNCHANGED <<result, registryVars, callbacks, artifact, panicked>>
                    /\ pc'[c] \in {"wait", "rm"})

C19_Witness ==
    \E c, d \in Calls :
        /\ pc[c] = "wait" /\ chan[c].buf = 0 /\ ~foundAnswer(c).found
        /\ questionID[c] \in DOMAIN pendingQuestions
        /\ events = <<>> /\ humanWrote # {}
        /\ pc[d] = "rm" /\ result[d].kind = "answer"
        /\ result[d].value = foundAnswer(d).answer

\* C20: a read of the wait loop that fails while the answer is in the ask
\* file, on a notification or on a periodic tick, leaves the call waiting
\* without a result, its channel open, and the registry, the subscription
\* table and the ask file as they were; no step gives a waiting call the
\* artifact error; and whenever a call waits and the answer is in the file,
\* after a failed read as before one, the periodic read can be taken and
\* decides on that answer.
C20_ReadFailureSwallowed ==
    /\ (\A c \in Calls :
          /\ missedAnswer[c] => (pc[c] = "wait" /\ result[c] = NoResult)
          /\ (pc[c] = "wait" /\ foundAnswer(c).found) =>
                 ENABLED (tickRead(c) /\ pc'[c] = "rm"
                             /\ result'[c] = Answer(foundAnswer(c).answer)))
    /\ EveryStep(PlainNext,
          /\ \A c \in Calls :
               /\ (\/ /\ pc[c] = "wait" /\ chan'[c].buf < chan[c].buf
                      /\ foundAnswer(c).found /\ result'[c].kind # "answer"
                   \/ ~missedAnswer[c] /\ missedAnswer'[c]) =>
                      /\ pc[c] = "wait" /\ pc'[c] = "wait"
                      /\ result'[c] = NoResult
                      /\ ~chan'[c].closed
                      /\ UNCHANGED <<registryVars, callbacks, artifact>>
               /\ pc[c] = "wait" => result'[c].kind # "ErrFileAccess")

C20_Witness ==
    \E c \in Calls :
        /\ missedAnswer[c] /\ chan[c].buf = 0 /\ events = <<>>
        /\ pc[c] = "wait" /\ foundAnswer(c).found /\ result[c] = NoResult
        /\ \E w \in humanWrote : w[1] = questionID[c]
        /\ questionID[c] \in DOMAIN pendingQuestions
        /\ questionID[c] \in DOMAIN callbacks

\* the calls that have decided to return an answer and are past recordAnswer
Answered == {c \in Calls : result[c].kind = "answer" /\ pc[c] \in {"unreg", "done"}}

\* C21: an ask call that returns an answer has removed its pending entry,
\* has recorded the success once and has unsubscribed before it returns: the
\* answered counter is the number of calls that returned an answer, each
\* recordAnswer adds one, and a returned call has no entry and no subscription.
C21_AnsweredCountedOnce ==
    /\ (totalAnswered = Cardinality(Answered))
    /\ (\A c \in Answered :
          /\ questionID[c] \notin DOMAIN pendingQuestions
          /\ questionID[c] \in answeredQuestions
          /\ pc[c] = "done" => questionID[c] \notin DOMAIN callbacks)
    /\ EveryStep(PlainNext,
          /\ totalAnswered' \in {totalAnswered, totalAnswered + 1})

\* a call that was tracked and waited has returned the answer
C21_Witness ==
    \E c \in Calls :
        /\ pc[c] = "done" /\ result[c].kind = "answer"
        /\ \A d \in Calls \ {c} : pc[d] = "idle"
        /\ totalQuestions = 1 /\ totalAnswered = 1

\* the entries a sweep of the registry p keeps: those not older than Timeout
NotOverdue(p) == {id \in DOMAIN p : p[id] <= Timeout}

\* C22: cleanupTimeouts deletes every entry whose age strictly exceeds the
\* timeout and no other entry, in the background loop and at the start of an
\* ask call, and changes nothing but the pending registry.
C22_SweepDeletesOverdueOnly ==
    EveryStep(PlainNext,
          /\ (pc' = pc /\ DOMAIN pendingQuestions' # DOMAIN pendingQuestions) =>
               /\ cleanupLoop = "running"
               /\ DOMAIN pendingQuestions' = NotOverdue(pendingQuestions)
               /\ \A id \in DOMAIN pendingQuestions' :
                      pendingQuestions'[id] = pendingQuestions[id]
               /\ UNCHANGED <<callVars, answeredQuestions, totalQuestions, totalAnswered,
                              notifierVars, fileVars, envVars>>
          /\ \A c \in Calls : (pc[c] = "cleanup" /\ pc'[c] # "cleanup") =>
               /\ DOMAIN pendingQuestions' = NotOverdue(pendingQuestions)
               /\ \A id \in DOMAIN pendingQuestions' :
                      pendingQuestions'[id] = pendingQuestions[id]
               /\ UNCHANGED <<answeredQuestions, totalQuestions, totalAnswered,
                              notifierVars, fileVars, envVars>>)

\* after a background sweep: the entry of one waiting call is gone, the entry
\* of another, whose age is the timeout exactly, is kept
C22_Witness ==
    \E c, d \in Calls :
        /\ pc[c] = "wait" /\ pc[d] = "wait"
        /\ cleanedUp[c] = 0 /\ cleanedUp[d] = 0
        /\ questionID[c] \notin DOMAIN pendingQuestions
        /\ questionID[d] \in DOMAIN pendingQuestions
        /\ pendingQuestions[questionID[d]] = Timeout

\* the calls inside WithFileLock, between Lock and Unlock
Appending == {c \in Calls : pc[c] = "write"}

\* C23: the lock file is removed on the success and on the failure path of an
\* append, so that a later append can acquire the lock, and a failed
\* acquisition leaves the lock file of the other call in place.
C23_LockFileReleased ==
    /\ (lockFile <=> Appending # {})
    /\ (\A c \in Calls :
          (pc[c] = "lock" /\ Appending = {}) => ENABLED lockRead(c))
    /\ EveryStep(PlainNext,
          /\ \A c \in Calls :
               /\ (pc[c] = "write" /\ pc'[c] # "write") => ~lockFile'
               /\ (pc[c] = "lock" /\ ~lockFile /\ pc'[c] = "unreg") => ~lockFile'
               /\ (pc[c] = "lock" /\ lockFile /\ pc'[c] # "lock") =>
                      /\ lockFile'
                      /\ Appending' = Appending
                      /\ result'[c] = Err("ErrFileAccess", "lock"))

\* one append has failed in its write and has returned; the next call has
\* acquired the lock after it
C23_Witness ==
    \E c, d \in Calls :
        /\ pc[c] = "done" /\ result[c] = Err("ErrFileAccess", "write")
        /\ pc[d] = "write" /\ questionID[d] = QuestionIDs[2]
        /\ lockFile

\* the spellings of the sentinel
Sentinels == { <<"PENDING">>, <<"pending">>, <<"Pending">> }

\* the answer field holds one line
OneLine(answer) == \A k \in 1..Len(TrimSpace(answer)) : TrimSpace(answer)[k] # "NL"

\* C24: the sentinel is recognised after trimming and whatever its case:
\* FindAnswer reports not-found for PENDING, pending and Pending, blanks
\* around them or not, and reports any other value found, trimmed.
C24_SentinelAnyCase ==
    parsed # NotParsed =>
        LET own == OwnBlock(parserBlocks, wantedID, 1)
        IN  (own # 0 /\ parserBlocks[own].marker /\ OneLine(parserBlocks[own].answer)) =>
                LET value == TrimSpace(parserBlocks[own].answer)
                IN  /\ value \in Sentinels => parsed = NotFound
                    /\ value \notin Sentinels => parsed = [found |-> TRUE, answer |-> value]

\* FindAnswer has reported not-found for a block whose answer field holds
\* the sentinel in another case with blanks around it
C24_Witness ==
    /\ parsed = NotFound
    /\ LET own == OwnBlock(parserBlocks, wantedID, 1)
       IN  /\ own # 0
           /\ parserBlocks[own].marker
           /\ parserBlocks[own].answer = <<"SP", "Pending", "SP">>

\* C25: an answer of several lines is reported whole, from the marker to the
\* boundary of the next block, whether its block is the last of the file or
\* is followed by another.
C25_MultiLineAnswerWhole ==
    parsed # NotParsed =>
        LET own == OwnBlock(parserBlocks, wantedID, 1)
        IN  (own # 0 /\ parserBlocks[own].marker /\ ~OneLine(parserBlocks[own].answer)) =>
                parsed = [found |-> TRUE, answer |-> TrimSpace(parserBlocks[own].answer)]

\* FindAnswer has reported an answer of two lines with an empty line between
\* them, from a block that another block follows
C25_Witness ==
    /\ Len(parserBlocks) = 2
    /\ parserBlocks[1].id = wantedID
    /\ parserBlocks[1].marker
    /\ parserBlocks[1].answer = <<"blue", "NL", "NL", "green">>
    /\ parsed = [found |-> TRUE, answer |-> <<"blue", "NL", "NL", "green">>]

\* the watch loop receives the event at the head of the queue
Received ==
    /\ watchLoop = "running" /\ watchLoop' = "running"
    /\ events # <<>> /\ events' = Tail(events)

\* a write or a create of the ask file
ArtifactWritten(e) == e.name = "ask" /\ e.op \cap {"Write", "Create"} # {}

\* C26: the watch loop calls NotifyAll once for each event it receives that
\* is a write or a create of the ask file, and for no other path and no other
\* kind; a watcher error does not end the loop, only Close does.
C26_NotifyOnArtifactWriteOnly ==
    /\ (watchLoop = "exited" => shutdown)
    /\ ((watchLoop = "running" /\ watcherOpen) => ENABLED watchError)
    /\ EveryStep(WatchNext,
          /\ (Received /\ ArtifactWritten(Head(events))) =>
               /\ callbacks' = callbacks /\ ~panicked'
               /\ \A c \in Calls :
                     IF (\E id \in DOMAIN callbacks : callbacks[id] = c) /\ chan[c].buf < ChanCap
                     THEN chan'[c] = [chan[c] EXCEPT !.buf = @ + 1]
                     ELSE chan'[c] = chan[c]
          /\ (Received /\ ~ArtifactWritten(Head(events))) => UNCHANGED notifierVars
          /\ (\E c \in Calls : chan'[c].buf > chan[c].buf) =>
               Received /\ ArtifactWritten(Head(events)))

\* a waiting call has been signalled for a write of the ask file, and the
\* next event the loop will receive is the creation of the lock file
C26_Witness ==
    \E c \in Calls :
        /\ pc[c] = "wait" /\ chan[c].buf = 1
        /\ questionID[c] \in DOMAIN callbacks
        /\ events = <<Event("ask.lock", {"Create"})>>
        /\ watchLoop = "running"

\* C27: after Close both background loops terminate, the watch loop closing
\* the watch handle as it leaves, and a loop that has left on cancellation
\* calls NotifyAll or sweeps no more.
C27_LoopsTerminate ==
    /\ shutdown ~> (watchLoop = "exited" /\ cleanupLoop = "exited")
    /\ [](watchLoop = "exited" => (~watcherOpen /\ events = <<>>))
    /\ [][watchLoop = "exited" =>
            /\ watchLoop' = "exited"
            /\ \A c \in Calls : chan'[c].buf <= chan[c].buf]_vars
    /\ [][cleanupLoop = "exited" =>
            /\ cleanupLoop' = "exited"
            /\ pc' = pc => DOMAIN pendingQuestions' = DOMAIN pendingQuestions]_vars
    /\ [][(watchLoop' # watchLoop \/ cleanupLoop' # cleanupLoop) => shutdown]_vars

\* both loops have left, and a call still waits with an entry older than
\* the timeout, which no sweep will delete
C27_Witness ==
    /\ watchLoop = "exited" /\ cleanupLoop = "exited" /\ ~watcherOpen
    /\ \E c \in Calls :
          /\ pc[c] = "wait"
          /\ questionID[c] \in DOMAIN pendingQuestions
          /\ pendingQuestions[questionID[c]] > Timeout

\* C28: a call blocked in its wait loop holds neither the registry mutex nor
\* the notifier mutex nor the lock file, so that the sweep, the watch loop
\* and the other calls can take them.
C28_WaitHoldsNoLock ==
    \A c \in Calls : pc[c] = "wait" =>
        /\ mutex # c /\ fwMutex # c
        /\ lockFile => \E d \in Calls \ {c} : pc[d] = "write"
        /\ mutexFree /\ fwMutexFree
        /\ \A d \in Calls \ {c} :
              /\ pc[d] = "cleanup" => ENABLED askCleanup(d)
              /\ pc[d] = "track" => ENABLED track(d)
              /\ pc[d] = "rm" => ENABLED removePending(d)
              /\ pc[d] = "unreg" => ENABLED unregister(d)
              /\ (pc[d] = "lock" /\ \A e \in Calls : pc[e] # "write") => ENABLED lockRead(d)
        /\ (watchLoop = "running" /\ events # <<>>) => ENABLED watchEvent
        /\ (cleanupLoop = "running"
              /\ cleanupTimeouts(pendingQuestions) # pendingQuestions) => ENABLED sweep

\* one call waits while another is about to take the registry mutex, an
\* event is there for the watch loop and an entry is there for the sweep
C28_Witness ==
    \E c, d \in Calls :
        /\ pc[c] = "wait" /\ pc[d] = "track"
        /\ events # <<>> /\ watchLoop = "running"
        /\ cleanupLoop = "running"
        /\ cleanupTimeouts(pendingQuestions) # pendingQuestions

\* C29: the ask file is append-only for the engine: a successful append
\* leaves the content the file had before it, followed by one new block with
\* the identifier, the question, the context and the answer PENDING, and no
\* step of an ask call shortens the file or changes an earlier block.
C29_AppendOnly ==
    /\ [][\A c \in Calls : (pc[c] = "write" /\ pc'[c] = "check") =>
            artifact' = Append(artifact,
                               NewBlock(questionID[c], question[c], context[c]))]_vars
    /\ [][(pc' # pc /\ artifact' # artifact) =>
            /\ Len(artifact') >= Len(artifact)
            /\ \A i \in 1..Len(artifact) : artifact'[i] = artifact[i]]_vars

\* the call decides on the timeout in this step
TimesOut(c) ==
    /\ result[c].kind # "ErrQuestionTimeout"
    /\ result'[c].kind = "ErrQuestionTimeout"

\* the entries and the subscriptions of the calls other than c are kept
OthersKept(c) ==
    /\ \A d \in Calls \ {c} :
          /\ pc'[d] = pc[d] /\ result'[d] = result[d]
          /\ chan'[d] = chan[d]
    /\ \A id \in DOMAIN pendingQuestions \ {questionID[c]} :
          /\ id \in DOMAIN pendingQuestions'
          /\ pendingQuestions'[id] = pendingQuestions[id]
    /\ \A id \in DOMAIN callbacks \ {questionID[c]} :
          /\ id \in DOMAIN callbacks'
          /\ callbacks'[id] = callbacks[id]

\* C30: the timeout is per question and does not depend on shutdown: a call
\* decides on the timeout only from its own wait loop and only when the
\* configured duration has passed since that wait began, it can do so then
\* whether Close was called or not, and neither that step nor the removal and
\* the unsubscription that follow it end another call or take its entry or
\* its subscription.
C30_TimeoutPerQuestion ==
    /\ (\A c \in Calls :
          (pc[c] = "wait" /\ sinceStart[c] >= Timeout) => ENABLED selectTimeout(c))
    /\ EveryStep(PlainNext,
          /\ \A c \in Calls : TimesOut(c) =>
               /\ pc[c] = "wait"
               /\ sinceStart[c] >= Timeout
               /\ shutdown' = shutdown
               /\ OthersKept(c)
          /\ \A c \in Calls :
               (result[c].kind = "ErrQuestionTimeout" /\ pc'[c] # pc[c]) => OthersKept(c))

\* one call has timed out and returned before Close; another, which began to
\* wait later, still waits with its entry and its subscription, its own
\* duration not yet over
C30_Witness ==
    \E c, d \in Calls :
        /\ pc[c] = "done" /\ result[c].kind = "ErrQuestionTimeout"
        /\ ~shutdown
        /\ pc[d] = "wait" /\ sinceStart[d] < Timeout
        /\ questionID[d] \in DOMAIN pendingQuestions
        /\ questionID[d] \in DOMAIN callbacks

\* C31: the ask calls that were admitted and have not returned are at most
\* MaxPendingQuestions, and so are the entries of the pending registry.
C31_AdmittedWithinLimit ==
    /\ Cardinality(InFlight) <= MaxPendingQuestions
    /\ count(pendingQuestions) <= MaxPendingQuestions

\* C32: once the ask file holds an answer of the human for an identifier, no
\* step of an ask call removes that block or changes its answer field.
C32_AnswerSurvivesAppends ==
    [][pc' # pc =>
         \A i \in 1..Len(artifact) :
             (\E w \in humanWrote : w = <<artifact[i].id, artifact[i].answer>>) =>
                 /\ i <= Len(artifact')
                 /\ artifact'[i].id = artifact[i].id
                 /\ artifact'[i].answer = artifact[i].answer]_vars

\* C33: right after the append of a call, the human not having typed
\* anything into its block, FindAnswer reports not-found for the call's
\* identifier, whatever the question and the context hold, and no call
\* returns an answer that the human did not write.
C33_FreshBlockNotFound ==
    /\ \A c \in Calls :
          (pc[c] = "check" /\ \A w \in humanWrote : w[1] # questionID[c]) =>
              ~foundAnswer(c).found
    /\ \A c \in Calls :
          result[c].kind = "answer" => \E w \in humanWrote : w[1] = questionID[c]

\* C34: the answered counter is at most the asked counter.
C34_AnsweredAtMostAsked == totalAnswered <= totalQuestions

\* C35: an ask call never returns an empty answer: the answer of a call
\* that reports success is not empty after trimming; a blank answer field
\* does not resolve the question.
C35_AnswerNotEmpty ==
    \A c \in Calls : result[c].kind = "answer" => TrimSpace(result[c].value) # <<>>

\* what s.mutex guards has changed
RegistryWritten ==
    <<DOMAIN pendingQuestions, answeredQuestions, totalQuestions, totalAnswered>>' #
    <<DOMAIN pendingQuestions, answeredQuestions, totalQuestions, totalAnswered>>

\* what is done under fw.mutex has happened: the table has changed, a
\* channel was closed or was sent to
NotifierWritten ==
    \/ callbacks' # callbacks
    \/ \E c \in Calls : chan'[c].closed # chan[c].closed \/ chan'[c].buf > chan[c].buf

\* C36: the registry mutex and the notifier mutex are never held together:
\* no step works under both, no step leaves one of them held, and every step
\* that needs one of them can take it, so ask calls, watch loop and sweep do
\* not deadlock on them.
C36_LocksNeverNested ==
    /\ (mutex = 0 /\ fwMutex = 0)
    /\ (\A c \in Calls :
          /\ pc[c] = "cleanup" => ENABLED askCleanup(c)
          /\ pc[c] = "register" => ENABLED register(c)
          /\ pc[c] = "track" => ENABLED track(c)
          /\ pc[c] = "rm" => ENABLED removePending(c)
          /\ pc[c] = "unreg" => ENABLED unregister(c))
    /\ ((watchLoop = "running" /\ events # <<>>) => ENABLED watchEvent)
    /\ ((cleanupLoop = "running"
           /\ cleanupTimeouts(pendingQuestions) # pendingQuestions) => ENABLED sweep)
    /\ EveryStep(PlainNext,
          /\ ~(RegistryWritten /\ NotifierWritten))

\* one call is about to take the registry mutex, another the notifier
\* mutex, and an event is there for the watch loop
C36_Witness ==
    \E c, d \in Calls :
        /\ pc[c] = "rm" /\ pc[d] = "register"
        /\ questionID[c] \in DOMAIN pendingQuestions
        /\ questionID[c] \in DOMAIN callbacks
        /\ events # <<>> /\ watchLoop = "running"

\* the calls whose dialog is shown or has returned, up to the removal
InDialog == {c \in Calls : pc[c] \in {"dialog", "zrm"}}

\* C37: on the dialog path an admitted call makes its entry before the
\* dialog is shown and removes it after the dialog has returned, whatever
\* the outcome; after its return the registry has no entry for it, and the
\* entries are those of the calls still in their dialog.
C37_DialogEntryRemoved ==
    /\ (\A c \in Calls :
          pc[c] = "done" => questionID[c] \notin DOMAIN pendingQuestions)
    /\ (DOMAIN pendingQuestions \subseteq {questionID[c] : c \in InDialog})
    /\ ((\A c \in Calls : pc[c] = "done") => count(pendingQuestions) = 0)
    /\ EveryStep(DialogNext,
          /\ \A c \in Calls : (pc[c] # "dialog" /\ pc'[c] = "dialog") =>
               /\ pc[c] = "ztrack"
               /\ questionID[c] \in DOMAIN pendingQuestions'
          /\ \A c \in Calls : (pc[c] = "dialog" /\ pc'[c] # "dialog") =>
               /\ pc'[c] = "zrm"
               /\ result'[c] \in {ZenityAskQuestion(o, e) :
                                    o \in DialogOutcomes, e \in DialogEntries})

\* one call has returned from a cancelled dialog, its entry gone, while the
\* dialog of another is still shown and its entry is the only one
C37_Witness ==
    \E c, d \in Calls :
        /\ pc[c] = "done"
        /\ result[c] = DialogErr("user canceled the question dialog")
        /\ pc[d] = "dialog"
        /\ DOMAIN pendingQuestions = {questionID[d]}

\* C38: an ask call that finds the ask file larger than MaxFileSize returns
\* the file-too-large error before it subscribes, appends or tracks:
\* subscription table, ask file, lock file and registry are as before, and
\* the call has no block, no subscription and no entry.
C38_TooLargeTouchesNothing ==
    /\ (\A c \in Calls : result[c].kind = "ErrFileTooLarge" =>
          /\ pc[c] = "done"
          /\ questionID[c] \notin DOMAIN pendingQuestions
          /\ questionID[c] \notin DOMAIN callbacks
          /\ questionID[c] \notin BlockIDs
          /\ ~chan[c].closed /\ chan[c].buf = 0)
    /\ EveryStep(LiveNext,
          /\ \A c \in Calls :
               (pc[c] = "register" /\ pc'[c] # "register"
                  /\ Len(FileText(artifact)) > MaxFileSize) =>
                   /\ pc'[c] = "done"
                   /\ result'[c] = Err("ErrFileTooLarge", "size")
                   /\ Untouched
          /\ \A c \in Calls :
               (result[c].kind # "ErrFileTooLarge" /\ result'[c].kind = "ErrFileTooLarge") =>
                   pc[c] = "register" /\ Len(FileText(artifact)) > MaxFileSize)

\* a call has returned the file-too-large error on the file of the earlier
\* session, which is as it was, with no lock file and no subscription
C38_Witness ==
    \E c \in Calls :
        /\ pc[c] = "done" /\ result[c] = Err("ErrFileTooLarge", "size")
        /\ artifact = OldFile
        /\ Len(FileText(artifact)) > MaxFileSize
        /\ ~lockFile /\ callbacks = EmptyMap /\ pendingQuestions = EmptyMap

\* the call has left the wait loop with an answer, the timeout or the
\* shutdown error
Exited(c) ==
    /\ pc[c] \in {"rm", "unreg", "done"}
    /\ result[c].kind \in {"answer", "ErrQuestionTimeout", "ErrServerShutdown"}

\* the block with the identifier id is in the file, with the answer field ans
BlockHas(id, ans) ==
    \E i \in 1..Len(artifact) : artifact[i].id = id /\ artifact[i].answer = ans

\* C39: every exit of an ask call from the wait loop, and its removal and
\* unsubscription after it, leave the ask file as it is; a step of an ask
\* call changes the file only as the write of its append; the block of a
\* call that has left the loop stays in the file; the result of a call that
\* has left is final, and a human edit of its block changes what no other
\* waiting call finds.
C39_ExitKeepsArtifact ==
    /\ (\A c \in Calls : Exited(c) => questionID[c] \in BlockIDs)
    /\ EveryStep(PlainNext,
          /\ \A c \in Calls :
               (pc[c] \in {"wait", "rm", "unreg"} /\ pc'[c] # pc[c]) =>
                   artifact' = artifact
          /\ (artifact' # artifact /\ pc' # pc) =>
               \E c \in Calls : /\ pc[c] = "write" /\ pc'[c] = "check"
                                /\ \A d \in Calls \ {c} : pc'[d] = pc[d]
          /\ \A c \in Calls : Exited(c) =>
               /\ Exited(c)'
               /\ result'[c] = result[c]
               /\ questionID'[c] = questionID[c]
               /\ questionID[c] \in BlockIDs'
          /\ \A c \in Calls, i \in 1..Len(artifact) :
               (/\ Exited(c) /\ result[c].kind # "answer"
                /\ artifact[i].id = questionID[c]
                /\ pc' = pc /\ Len(artifact') = Len(artifact)
                /\ artifact'[i].answer # artifact[i].answer) =>
                   \A d \in Calls \ {c} :
                       pc[d] \in {"check", "track", "wait"} =>
                           foundAnswer(d)' = foundAnswer(d))

\* a call has timed out and returned, the human has typed an answer into its
\* block afterwards, the only edit there is; the other call waits on its own
\* pending block, was notified of the edit, and finds no answer
C39_Witness ==
    \E c \in Calls, d \in Calls :
        /\ c # d
        /\ pc[c] = "done" /\ result[c].kind = "ErrQuestionTimeout"
        /\ \E w \in humanWrote : w[1] = questionID[c] /\ BlockHas(questionID[c], w[2])
        /\ pc[d] = "wait" /\ BlockHas(questionID[d], <<"PENDING">>)
        /\ chan[d].buf > 0
        /\ ~foundAnswer(d).found

====
